---- MODULE Spec2Model ----
(***************************************************************************)
(* Double Ratchet session core (suyeonORG/double-ratchet): X3DH session    *)
(* creation, the DH ratchet, the symmetric chains and the skipped-key      *)
(* caches, with symbolic cryptography.                                     *)
(*                                                                         *)
(* Keys are triples <<owner, role, n>>, the owner being the registration   *)
(* id of its Identity; the public and the private half of a pair carry the *)
(* same triple.  A byte string produced by a primitive is a tagged tuple,  *)
(* so two byte strings are equal exactly when they were computed from      *)
(* equal inputs (no collisions, no forgeries).                             *)
(*                                                                         *)
(* Optional values (undefined in the source) are sequences of length 0 or  *)
(* 1.  JavaScript arrays are 0-based: element j is at index j + 1 here.    *)
(***************************************************************************)
EXTENDS Integers, Sequences, FiniteSets, TLC

VARIABLES
    identity,   \* party -> Identity (address.ts), the application's objects
    sess,       \* party -> <<>> or <<AsymmetricRatchet>>
    net,        \* every message returned by encrypt so far, in sending order
    now,        \* Date.now(), in units of half an hour
    last,       \* outcome of the last operation (what the caller observed)
    hist,       \* delivery history: what the transport did so far
    calls       \* responder-side create calls, in flight or over (SpecCreate)

vars == <<identity, sess, net, now, last, hist, calls>>

-----------------------------------------------------------------------------
(* Bounds of the model *)

MaxSend == 4          \* encrypt calls over both parties
MaxTamperSend == 3    \* the same, when the transport modifies messages
MaxTime == 3          \* clock ticks
MaxCalls == 2         \* responder-side create calls (SpecCreate)

-----------------------------------------------------------------------------
(* Program constants.  Times are in half hours; the entry counts of the    *)
(* source (2000, 1000, 10000, 1000) are divided by 1000 so that the caps   *)
(* are reached within the bounds above; their order is that of the source. *)

MAX_CACHED_KEY_AGE == 2                \* 60 * 60 * 1000 ms
MAX_CACHED_KEYS == 2                   \* 2000
DEFAULT_MAX_RATCHET_STEPS == 1         \* 1000
DEFAULT_MAX_SKIPPED_KEYS == 10         \* 10000
DEFAULT_SKIPPED_KEY_TTL == 336         \* 7 * 24 * 60 * 60 * 1000 ms
DEFAULT_MAX_MESSAGE_KEYS_PER_STEP == 1 \* 1000

DEFAULT_RATCHET_LIMITS ==
    [maxRatchetSteps |-> DEFAULT_MAX_RATCHET_STEPS,
     maxSkippedKeys |-> DEFAULT_MAX_SKIPPED_KEYS,
     skippedKeyTTL |-> DEFAULT_SKIPPED_KEY_TTL,
     maxMessageKeysPerStep |-> DEFAULT_MAX_MESSAGE_KEYS_PER_STEP]

\* The options.limits Bob creates his session with; Alice passes none.
BobLimits ==
    [maxRatchetSteps |-> 2, maxSkippedKeys |-> 1,
     skippedKeyTTL |-> 1, maxMessageKeysPerStep |-> 2]

-----------------------------------------------------------------------------
(* Optional values and small helpers *)

None == <<>>
Some(x) == <<x>>
IsSome(o) == Len(o) = 1
Val(o) == o[1]

Max2(a, b) == IF a >= b THEN a ELSE b

\* F applied to the value of e (const v = e; ...)
With(e, F(_)) == F(e)

\* arr[j] of a JavaScript array that may have holes (delete arr[j])
Hole == <<0, "hole", 0>>
ArrGet(arr, j) ==
    IF j + 1 \in DOMAIN arr /\ arr[j + 1] # Hole THEN Some(arr[j + 1]) ELSE None

\* delete arr[j]: the slot becomes a hole, arr.length is unchanged
ArrDelete(arr, j) ==
    IF j + 1 \in DOMAIN arr THEN [arr EXCEPT ![j + 1] = Hole] ELSE arr

\* Object.keys(arr).length: the slots that are not holes
ArrKeys(arr) == { j \in 0..(Len(arr) - 1) : arr[j + 1] # Hole }

\* f without the key k / f restricted to the keys in D
MapRemove(f, k) == [x \in (DOMAIN f) \ {k} |-> f[x]]
MapPut(f, k, v) == [x \in (DOMAIN f) \cup {k} |-> IF x = k THEN v ELSE f[x]]
EmptyMap == [x \in {} |-> 0]

-----------------------------------------------------------------------------
(* Primitives *)

\* Curve.generateKeyPair: a fresh pair, named by its owner, role and number
Key(owner, role, n) == <<owner, role, n>>

\* Curve.deriveBytes: X25519(a, B) = X25519(b, A)
DeriveBytes(privateKey, publicKey) == {privateKey, publicKey}

\* Curve.sign / Curve.verify (Ed25519)
CurveSign(signingKey, message) == <<"ed25519", signingKey, message>>
CurveVerify(signingKey, message, signature) ==
    signature = <<"ed25519", signingKey, message>>

\* ECPublicKey.thumbprint: hex SHA-256 of the serialized key
Thumbprint(publicKey) == publicKey

\* Secret.HKDF(input, n, salt, info): n blocks, numbered from 0; no salt is
\* the zero salt.  Secret.sign is HMAC-SHA-256.
ZeroSalt == <<"zeros">>
HKDF(input, n, salt, info) ==
    [i \in 1..n |-> <<"hkdf", info, i - 1, input, salt>>]
HMAC(key, data) == <<"hmac", data, key>>

\* Secret.encrypt / Secret.decrypt: AES-256-GCM with associated data.  A
\* ciphertext whose bytes were changed in transit carries flipped = TRUE.
AesEncrypt(aesKey, plaintext, iv, aad) ==
    [key |-> aesKey, iv |-> iv, aad |-> aad, pt |-> plaintext, flipped |-> FALSE]
AesDecryptOk(aesKey, cipherText, iv, aad) ==
    /\ ~cipherText.flipped
    /\ cipherText.key = aesKey
    /\ cipherText.iv = iv
    /\ cipherText.aad = aad

-----------------------------------------------------------------------------
(* Identity and the protocol records *)

\* Identity.create(id, signedPreKeyAmount, preKeyAmount)
IdentityCreate(id, signedPreKeyAmount, preKeyAmount) ==
    [id |-> id,
     signingKey |-> Key(id, "sig", 0),
     exchangeKey |-> Key(id, "ex", 0),
     preKeys |-> [j \in 1..preKeyAmount |-> Key(id, "opk", j - 1)],
     signedPreKeys |-> [j \in 1..signedPreKeyAmount |-> Key(id, "spk", j - 1)]]

\* IdentityProtocol.fill: the public keys and the signature over the
\* exchange key
IdentityProtocolFill(ident) ==
    [signingKey |-> ident.signingKey,
     exchangeKey |-> ident.exchangeKey,
     signature |-> CurveSign(ident.signingKey, ident.exchangeKey)]

\* A verification that accepts every signature
IdentityProtocolVerify_any(p) == TRUE

\* IdentityProtocol.verify
IdentityProtocolVerify(p) ==
    CurveVerify(p.signingKey, p.exchangeKey, p.signature)

\* PreKeySignedProtocol.verify(key)
PreKeySignedVerify(pks, signingKey) ==
    CurveVerify(signingKey, pks.key, pks.signature)

\* RemoteIdentity.fill
RemoteIdentityFill(p) ==
    [signingKey |-> p.signingKey, exchangeKey |-> p.exchangeKey,
     signature |-> p.signature]

\* The bundle the owner of ident publishes (runDemo): signed pre-key
\* spkId, and one-time pre-key opk (None, or Some(id))
MakeBundle(ident, spkId, opk) ==
    [registrationId |-> ident.id,
     identity |-> IdentityProtocolFill(ident),
     preKey |-> IF IsSome(opk)
                THEN Some([id |-> Val(opk), key |-> ident.preKeys[Val(opk) + 1]])
                ELSE None,
     preKeySigned |-> [id |-> spkId,
                       key |-> ident.signedPreKeys[spkId + 1],
                       signature |-> CurveSign(ident.signingKey,
                                               ident.signedPreKeys[spkId + 1])]]

-----------------------------------------------------------------------------
(* X3DH *)

X3DH_F == <<"F">>
INFO_TEXT == "Signal_X3DH"
INFO_RATCHET == "WhisperRatchet"
INFO_MESSAGE_KEYS == "WhisperMessageKeys"

\* combine(F, DH1, DH2, DH3, DH4) followed by HKDF and importHMAC
X3DHRoot(DH1, DH2, DH3, DH4) ==
    HKDF(<<X3DH_F, DH1, DH2, DH3, DH4>>, 1, ZeroSalt, INFO_TEXT)[1]

\* authenticateA(IKa, EKa, IKb, SPKb, OPKb?)
authenticateA(IKa, EKa, IKb, SPKb, OPKb) ==
    X3DHRoot(DeriveBytes(IKa.exchangeKey, SPKb),
             DeriveBytes(EKa, IKb),
             DeriveBytes(EKa, SPKb),
             IF IsSome(OPKb) THEN DeriveBytes(EKa, Val(OPKb)) ELSE {})

\* A responder that mixes up its identity key and its signed pre-key in DH2
authenticateB_swapped(IKb, SPKb, IKa, EKa, OPKb) ==
    X3DHRoot(DeriveBytes(SPKb, IKa),
             DeriveBytes(SPKb, EKa),
             DeriveBytes(SPKb, EKa),
             IF IsSome(OPKb) THEN DeriveBytes(Val(OPKb), EKa) ELSE {})

\* authenticateB(IKb, SPKb, IKa, EKa, OPKb?)
authenticateB(IKb, SPKb, IKa, EKa, OPKb) ==
    X3DHRoot(DeriveBytes(SPKb, IKa),
             DeriveBytes(IKb.exchangeKey, EKa),
             DeriveBytes(SPKb, EKa),
             IF IsSome(OPKb) THEN DeriveBytes(Val(OPKb), EKa) ELSE {})

-----------------------------------------------------------------------------
(* Symmetric ratchet (sym_ratchet.ts) *)

CIPHER_KEY_KDF_INPUT == <<"byte", 1>>
ROOT_KEY_KDF_INPUT == <<"byte", 2>>

\* new SendingRatchet(chainKey) / new ReceivingRatchet(chainKey)
NewSendingChain(chainKey) == [counter |-> 0, rootKey |-> chainKey]
NewReceivingChain(chainKey) ==
    [counter |-> 0, rootKey |-> chainKey,
     messageKeys |-> EmptyMap, messageKeysCreationTime |-> EmptyMap]

\* SymmetricRatchet.calculateKey
calculateKey(rootKey) ==
    [cipher |-> HMAC(rootKey, CIPHER_KEY_KDF_INPUT),
     rootKey |-> HMAC(rootKey, ROOT_KEY_KDF_INPUT)]

\* A click that hands out a cipher key and keeps the chain key it had
click_stay(chain) ==
    [chain |-> [chain EXCEPT !.counter = @ + 1],
     cipher |-> calculateKey(chain.rootKey).cipher]

\* SymmetricRatchet.click: the chain after the step, and the cipher key
click(chain) ==
    [chain |-> [chain EXCEPT !.rootKey = calculateKey(chain.rootKey).rootKey,
                             !.counter = @ + 1],
     cipher |-> calculateKey(chain.rootKey).cipher]

\* The three keys of a message: HKDF(cipherKey, 3, void 0, INFO_MESSAGE_KEYS)
MessageKeysOf(cipherKey) ==
    [aesKey |-> HKDF(cipherKey, 3, ZeroSalt, INFO_MESSAGE_KEYS)[1],
     hmacKey |-> HKDF(cipherKey, 3, ZeroSalt, INFO_MESSAGE_KEYS)[2],
     iv |-> HKDF(cipherKey, 3, ZeroSalt, INFO_MESSAGE_KEYS)[3]]

\* SendingRatchet.encrypt
SendingEncrypt(chain, message, associatedData) ==
    With(click(chain), LAMBDA c :
    With(MessageKeysOf(c.cipher), LAMBDA k :
        [chain |-> c.chain,
         cipherText |-> AesEncrypt(k.aesKey, message, k.iv, associatedData),
         hmacKey |-> k.hmacKey]))

\* The counters cleanupExpiredKeys deletes at time t
ExpiredCounters(chain, t) ==
    { c \in DOMAIN chain.messageKeysCreationTime :
        t - chain.messageKeysCreationTime[c] > MAX_CACHED_KEY_AGE }

\* The chain without the keys of the counters in gone
DeleteKeys(chain, gone) ==
    [chain EXCEPT
       !.messageKeys = [c \in (DOMAIN @) \ gone |-> @[c]],
       !.messageKeysCreationTime = [c \in (DOMAIN @) \ gone |-> @[c]]]

\* ReceivingRatchet.cleanupExpiredKeys
cleanupExpiredKeys(chain, t) == DeleteKeys(chain, ExpiredCounters(chain, t))

\* The smallest element of a non-empty finite set of integers
Least(S) == CHOOSE x \in S : \A y \in S : x <= y

\* The n smallest elements of a finite set of integers
RECURSIVE Smallest(_, _)
Smallest(S, n) ==
    IF n <= 0 \/ S = {} THEN {}
    ELSE {Least(S)} \cup Smallest(S \ {Least(S)}, n - 1)

\* A cache that is never cut back
enforceMaxCacheSize_none(chain) == chain

\* ReceivingRatchet.enforceMaxCacheSize
enforceMaxCacheSize(chain) ==
    IF Cardinality(DOMAIN chain.messageKeys) > MAX_CACHED_KEYS
    THEN DeleteKeys(chain,
             Smallest(DOMAIN chain.messageKeys,
                      Cardinality(DOMAIN chain.messageKeys) - MAX_CACHED_KEYS))
    ELSE chain

\* A fast-forward that does not keep the keys it skips
RECURSIVE FastForward_forget(_, _, _)
FastForward_forget(chain, counter, t) ==
    With(click(chain), LAMBDA c :
        IF c.chain.counter - 1 < counter
        THEN FastForward_forget(c.chain, counter, t)
        ELSE [chain |-> enforceMaxCacheSize(c.chain), key |-> c.cipher])

\* The fast-forward loop of ReceivingRatchet.getKey: while (this.counter <=
\* counter) click, store the skipped keys, return the key at counter
RECURSIVE FastForward(_, _, _)
FastForward(chain, counter, t) ==
    With(click(chain), LAMBDA c :
        IF c.chain.counter - 1 < counter
        THEN FastForward(
                 [c.chain EXCEPT
                    !.messageKeys = MapPut(@, c.chain.counter - 1, c.cipher),
                    !.messageKeysCreationTime = MapPut(@, c.chain.counter - 1, t)],
                 counter, t)
        ELSE [chain |-> enforceMaxCacheSize(c.chain), key |-> c.cipher])

\* A getKey that leaves a cached key it hands out in the cache
getKey_reuse(chain, counter, t) ==
    With(cleanupExpiredKeys(chain, t), LAMBDA clean :
        IF counter \in DOMAIN clean.messageKeys
        THEN [ok |-> TRUE, err |-> "",
              key |-> Some(clean.messageKeys[counter]),
              age |-> t - clean.messageKeysCreationTime[counter],
              chain |-> clean]
        ELSE IF counter < clean.counter
        THEN [ok |-> FALSE, err |-> "CounterTooOld", key |-> None, age |-> -1,
              chain |-> clean]
        ELSE With(FastForward(clean, counter, t), LAMBDA ff :
                 [ok |-> TRUE, err |-> "", key |-> Some(ff.key), age |-> -1,
                  chain |-> ff.chain]))

\* ReceivingRatchet.getKey.  age is the age of the cached key that was used
\* (-1 when the key came from the chain).
getKey(chain, counter, t) ==
    With(cleanupExpiredKeys(chain, t), LAMBDA clean :
        IF counter \in DOMAIN clean.messageKeys
        THEN [ok |-> TRUE, err |-> "",
              key |-> Some(clean.messageKeys[counter]),
              age |-> t - clean.messageKeysCreationTime[counter],
              chain |-> [clean EXCEPT
                           !.messageKeys = MapRemove(@, counter),
                           !.messageKeysCreationTime = MapRemove(@, counter)]]
        ELSE IF counter < clean.counter
        THEN [ok |-> FALSE, err |-> "CounterTooOld", key |-> None, age |-> -1,
              chain |-> clean]
        ELSE With(FastForward(clean, counter, t), LAMBDA ff :
                 [ok |-> TRUE, err |-> "", key |-> Some(ff.key), age |-> -1,
                  chain |-> ff.chain]))

\* ReceivingRatchet.decrypt: the key is taken from the chain before the
\* ciphertext is opened
ReceivingDecrypt(chain, message, counter, associatedData, t) ==
    With(getKey(chain, counter, t), LAMBDA g :
        IF ~g.ok
        THEN [ok |-> FALSE, err |-> g.err, chain |-> g.chain, age |-> g.age,
              plain |-> None, hmacKey |-> None]
        ELSE With(MessageKeysOf(Val(g.key)), LAMBDA k :
                 IF AesDecryptOk(k.aesKey, message, k.iv, associatedData)
                 THEN [ok |-> TRUE, err |-> "", chain |-> g.chain, age |-> g.age,
                       plain |-> Some(message.pt), hmacKey |-> Some(k.hmacKey)]
                 ELSE [ok |-> FALSE, err |-> "DecryptFailed", chain |-> g.chain,
                       age |-> g.age, plain |-> None, hmacKey |-> None]))

-----------------------------------------------------------------------------
(* DH ratchet steps and their stack (dh-step.ts, stack.ts).  Step objects  *)
(* live in the session's heap; currentStep, the items of the stack and the *)
(* lookup table hold references (heap indices) to them.                    *)

\* new DHRatchetStepEnhanced()
NewStep ==
    [remoteRatchetKey |-> None, ratchetKeyId |-> None,
     sendingChain |-> None, receivingChain |-> None,
     lastDecryptedCounter |-> -1, skippedMessageKeys |-> EmptyMap]

\* Stack.push
StackPush(items, maxSize, ref) ==
    Append(IF Len(items) = maxSize THEN Tail(items) ELSE items, ref)

\* DHRatchetStepStackEnhanced.cleanupSkippedKeysForRatchet
cleanupSkippedKeysForRatchet(globalSkippedKeys, ratchetKeyId) ==
    [k \in { x \in DOMAIN globalSkippedKeys : x[1] # ratchetKeyId }
       |-> globalSkippedKeys[k]]

\* The ratchetKeyId push gives an item that has none
KeyIdOf(item) ==
    IF IsSome(item.ratchetKeyId) THEN item.ratchetKeyId
    ELSE IF IsSome(item.remoteRatchetKey)
         THEN Some(Thumbprint(Val(item.remoteRatchetKey)))
         ELSE None

\* The cleanup push does if the stack is over its size after super.push
StepsOverflow(r) ==
    With(r.heap[r.items[1]], LAMBDA removedItem :
        IF Len(r.items) > r.maxSize /\ IsSome(removedItem.ratchetKeyId)
        THEN [r EXCEPT
                !.ratchetKeyLookup = MapRemove(@, Val(removedItem.ratchetKeyId)),
                !.globalSkippedKeys =
                    cleanupSkippedKeysForRatchet(@, Val(removedItem.ratchetKeyId))]
        ELSE r)

\* DHRatchetStepStackEnhanced.push, on the session r that owns the stack
StepsPush(r, ref) ==
    With(KeyIdOf(r.heap[ref]), LAMBDA keyId :
        StepsOverflow(
            [r EXCEPT
               !.items = StackPush(@, r.maxSize, ref),
               !.heap[ref].ratchetKeyId = keyId,
               !.ratchetKeyLookup =
                   IF IsSome(keyId) THEN MapPut(@, Val(keyId), ref) ELSE @]))

\* DHRatchetStepStackEnhanced.getStep: a reference, or None
getStep(r, remoteRatchetKey) ==
    IF Thumbprint(remoteRatchetKey) \in DOMAIN r.ratchetKeyLookup
    THEN Some(r.ratchetKeyLookup[Thumbprint(remoteRatchetKey)])
    ELSE None

\* DHRatchetStepStackEnhanced.cleanupExpiredSkippedKeys
cleanupExpiredSkippedKeys(r, t) ==
    [k \in { x \in DOMAIN r.globalSkippedKeys :
               ~(t - r.globalSkippedKeys[x].timestamp > r.limits.skippedKeyTTL) }
       |-> r.globalSkippedKeys[k]]

\* DHRatchetStepStackEnhanced.hasSkippedMessageKey
hasSkippedMessageKey(r, ratchetKeyId, messageCounter) ==
    <<ratchetKeyId, messageCounter>> \in DOMAIN r.globalSkippedKeys

\* A consume that hands the key out and leaves the entry in the cache
consumeSkippedMessageKey_keep(r, ratchetKeyId, messageCounter) ==
    IF hasSkippedMessageKey(r, ratchetKeyId, messageCounter)
    THEN [key |-> Some(r.globalSkippedKeys[<<ratchetKeyId, messageCounter>>].messageKey),
          globalSkippedKeys |-> r.globalSkippedKeys]
    ELSE [key |-> None, globalSkippedKeys |-> r.globalSkippedKeys]

\* DHRatchetStepStackEnhanced.consumeSkippedMessageKey
consumeSkippedMessageKey(r, ratchetKeyId, messageCounter) ==
    IF hasSkippedMessageKey(r, ratchetKeyId, messageCounter)
    THEN [key |-> Some(r.globalSkippedKeys[<<ratchetKeyId, messageCounter>>].messageKey),
          globalSkippedKeys |->
              MapRemove(r.globalSkippedKeys, <<ratchetKeyId, messageCounter>>)]
    ELSE [key |-> None, globalSkippedKeys |-> r.globalSkippedKeys]

-----------------------------------------------------------------------------
(* The session (asymmetric-ratchet.ts) *)

\* new AsymmetricRatchet(options), then the assignments create makes on
\* either path.  maxSize is limits.maxRatchetSteps || DEFAULT.
NewRatchet(ident, limits, rootKey, ratchetKey, step, remote, preKeyId, signedId) ==
    [id |-> ident.id,
     rootKey |-> rootKey,
     remoteIdentity |-> remote,
     remotePreKeyId |-> preKeyId,
     remotePreKeySignedId |-> signedId,
     counter |-> 0,
     currentStep |-> 1,
     currentRatchetKey |-> ratchetKey,
     heap |-> <<step>>,
     items |-> <<>>,
     maxSize |-> IF limits.maxRatchetSteps # 0 THEN limits.maxRatchetSteps
                 ELSE DEFAULT_MAX_RATCHET_STEPS,
     ratchetKeyLookup |-> [x \in {} |-> 0],
     globalSkippedKeys |-> [x \in {} |-> 0],
     limits |-> limits]

\* AsymmetricRatchet.createChain: the new root key and the chain key
createChain(r, ourRatchetKey, theirRatchetKey) ==
    With(HKDF(DeriveBytes(ourRatchetKey, theirRatchetKey), 2, r.rootKey,
              INFO_RATCHET),
         LAMBDA keys : [rootKey |-> keys[1], chainKey |-> keys[2]])

\* AsymmetricRatchet.createMinimalAAD
createMinimalAAD(counter, previousCounter) == <<counter, previousCounter>>

\* MessageSignedProtocol.signHMAC over receiverKey, senderKey and the
\* encoded message
signHMAC(macKey, receiverKey, senderKey, message) ==
    HMAC(macKey, <<receiverKey, senderKey, message>>)

\* A verification that accepts every MAC
MessageVerify_any(r, ident, protocol, hmacKey) == TRUE

\* A verification that takes the two parties' keys in the sender's order
MessageVerify_swapped(r, ident, protocol, hmacKey) ==
    signHMAC(hmacKey, r.remoteIdentity.signingKey, ident.signingKey,
             protocol.message) = protocol.signature

\* MessageSignedProtocol.verify, after decrypt has set senderKey and
\* receiverKey from its own session
MessageVerify(r, ident, protocol, hmacKey) ==
    signHMAC(hmacKey, ident.signingKey, r.remoteIdentity.signingKey,
             protocol.message) = protocol.signature


\* A rotation made whenever the current step has not sent, received or not
EncryptRotate_always(r, fresh) ==
    IF ~IsSome(r.heap[r.currentStep].sendingChain)
    THEN [r EXCEPT !.counter = @ + 1, !.currentRatchetKey = fresh]
    ELSE r

\* A rotation that counts twice
EncryptRotate_twice(r, fresh) ==
    IF /\ IsSome(r.heap[r.currentStep].receivingChain)
       /\ ~IsSome(r.heap[r.currentStep].sendingChain)
    THEN [r EXCEPT !.counter = @ + 2, !.currentRatchetKey = fresh]
    ELSE r

\* encrypt closes the ratchet step if the current step has received and
\* not yet sent
EncryptRotate(r, fresh) ==
    IF /\ IsSome(r.heap[r.currentStep].receivingChain)
       /\ ~IsSome(r.heap[r.currentStep].sendingChain)
    THEN [r EXCEPT !.counter = @ + 1, !.currentRatchetKey = fresh]
    ELSE r

\* encrypt creates the sending chain of the current step
EncryptNewChain(r) ==
    With(createChain(r, r.currentRatchetKey,
                     Val(r.heap[r.currentStep].remoteRatchetKey)),
         LAMBDA ch :
             [r EXCEPT !.rootKey = ch.rootKey,
                       !.heap[r.currentStep].sendingChain =
                           Some(NewSendingChain(ch.chainKey))])

\* The MessageSignedProtocol encrypt builds and signs
SignedMessage(r, ident, message, hmacKey) ==
    [senderKey |-> ident.signingKey,
     message |-> message,
     signature |-> signHMAC(hmacKey, r.remoteIdentity.signingKey,
                            ident.signingKey, message)]

\* The PreKeyMessageProtocol encrypt wraps the first message in
PreKeyMessage(r, ident) ==
    [registrationId |-> ident.id,
     preKeyId |-> r.remotePreKeyId,
     preKeySignedId |-> Val(r.remotePreKeySignedId),
     baseKey |-> r.currentRatchetKey,
     identity |-> IdentityProtocolFill(ident)]

\* An encrypt that wraps the first message of every sending chain begun
\* before the second rotation in a PreKeyMessage
EncryptMessage_each(r, ident, messageCounter, enc) ==
    [ok |-> TRUE, err |-> "", ratchet |-> r, upd |-> 1,
     out |-> Some(
         [pre |-> IF enc.chain.counter = 1 /\ r.counter <= 1
                  THEN Some([registrationId |-> ident.id,
                             preKeyId |-> r.remotePreKeyId,
                             preKeySignedId |->
                                 IF IsSome(r.remotePreKeySignedId)
                                 THEN Val(r.remotePreKeySignedId) ELSE 0,
                             baseKey |-> r.currentRatchetKey,
                             identity |-> IdentityProtocolFill(ident)])
                  ELSE None,
          signed |-> SignedMessage(r, ident,
                         [senderRatchetKey |-> r.currentRatchetKey,
                          counter |-> messageCounter,
                          previousCounter |-> r.counter,
                          cipherText |-> enc.cipherText],
                         enc.hmacKey)])]

\* encrypt from the call of sendingChain.encrypt on: r is the session with
\* the advanced chain stored, enc what the chain returned
EncryptMessage(r, ident, messageCounter, enc) ==
    [ok |-> TRUE, err |-> "", ratchet |-> r, upd |-> 1,
     out |-> Some(
         [pre |-> IF /\ Len(r.items) = 0
                     /\ ~IsSome(r.heap[r.currentStep].receivingChain)
                     /\ enc.chain.counter = 1
                  THEN Some(PreKeyMessage(r, ident))
                  ELSE None,
          signed |-> SignedMessage(r, ident,
                         [senderRatchetKey |-> r.currentRatchetKey,
                          counter |-> messageCounter,
                          previousCounter |-> r.counter,
                          cipherText |-> enc.cipherText],
                         enc.hmacKey)])]

\* An encrypt that numbers the message with the chain's counter after the
\* encryption
EncryptWithChain_after(r, ident, plaintext, chain) ==
    With(SendingEncrypt(chain, plaintext,
                        createMinimalAAD(chain.counter, r.counter)),
         LAMBDA enc :
             EncryptMessage(
                 [r EXCEPT !.heap[r.currentStep].sendingChain = Some(enc.chain)],
                 ident, enc.chain.counter, enc))

\* encrypt once the current step has a sending chain
EncryptWithChain(r, ident, plaintext, chain) ==
    With(SendingEncrypt(chain, plaintext,
                        createMinimalAAD(chain.counter, r.counter)),
         LAMBDA enc :
             EncryptMessage(
                 [r EXCEPT !.heap[r.currentStep].sendingChain = Some(enc.chain)],
                 ident, chain.counter, enc))

\* encrypt after the step was closed or left open
EncryptRotated(r, ident, plaintext) ==
    IF /\ ~IsSome(r.heap[r.currentStep].sendingChain)
       /\ ~IsSome(r.heap[r.currentStep].remoteRatchetKey)
    THEN [ok |-> FALSE, err |-> "EmptyRemoteRatchetKey", ratchet |-> r,
          out |-> None, upd |-> 0]
    ELSE With(IF ~IsSome(r.heap[r.currentStep].sendingChain)
              THEN EncryptNewChain(r) ELSE r,
              LAMBDA r2 :
                  EncryptWithChain(r2, ident, plaintext,
                      Val(r2.heap[r2.currentStep].sendingChain)))

\* AsymmetricRatchet.encrypt.  fresh is the pair generateRatchetKey returns
\* if it is called.  The result: the session afterwards, the message (or
\* the error thrown), and the number of update events emitted.
Encrypt(r, ident, plaintext, fresh) ==
    EncryptRotated(EncryptRotate(r, fresh), ident, plaintext)

\* decryptWithKey once the message keys k are derived
decryptWithKeys(r, ident, k, protocol) ==
    IF ~AesDecryptOk(k.aesKey, protocol.message.cipherText, k.iv,
                     createMinimalAAD(protocol.message.counter,
                                      protocol.message.previousCounter))
    THEN [ok |-> FALSE, err |-> "DecryptFailed", plain |-> None]
    ELSE IF ~MessageVerify(r, ident, protocol, k.hmacKey)
    THEN [ok |-> FALSE, err |-> "VerifyFailed", plain |-> None]
    ELSE [ok |-> TRUE, err |-> "", plain |-> Some(protocol.message.cipherText.pt)]

\* AsymmetricRatchet.decryptWithKey: open the ciphertext with a key taken
\* from the session-global cache, then verify the MAC
decryptWithKey(r, ident, messageKey, protocol) ==
    decryptWithKeys(r, ident, MessageKeysOf(messageKey), protocol)

\* AsymmetricRatchet.generateSkippedMessageKeys: it only logs the counters
\* it would derive; the session is returned as it was
generateSkippedMessageKeys(r, ref, fromCounter, toCounter) == r

\* A decrypt that pushes the new step and keeps sending on the old one
DecryptNewStep_behind(r, remoteRatchetKey) ==
    StepsPush(
        [r EXCEPT !.heap = Append(@,
            [NewStep EXCEPT
               !.remoteRatchetKey = Some(remoteRatchetKey),
               !.ratchetKeyId = Some(Thumbprint(remoteRatchetKey))])],
        Len(r.heap) + 1)

\* decrypt meets a ratchet key it has no step for: create the step, push
\* it, make it current
DecryptNewStep(r, remoteRatchetKey) ==
    [StepsPush(
        [r EXCEPT !.heap = Append(@,
            [NewStep EXCEPT
               !.remoteRatchetKey = Some(remoteRatchetKey),
               !.ratchetKeyId = Some(Thumbprint(remoteRatchetKey))])],
        Len(r.heap) + 1)
     EXCEPT !.currentStep = Len(r.heap) + 1]

\* A decrypt that builds the receiving chain and keeps the root key it had
DecryptNewChain_stale(r, ref, remoteRatchetKey) ==
    [r EXCEPT !.heap[ref].receivingChain =
        Some(NewReceivingChain(
            createChain(r, r.currentRatchetKey, remoteRatchetKey).chainKey))]

\* decrypt creates the receiving chain of step ref
DecryptNewChain(r, ref, remoteRatchetKey) ==
    With(createChain(r, r.currentRatchetKey, remoteRatchetKey),
         LAMBDA ch :
             [r EXCEPT !.rootKey = ch.rootKey,
                       !.heap[ref].receivingChain =
                           Some(NewReceivingChain(ch.chainKey))])

\* A decrypt that emits no update event
DecryptVerify_silent(r, ident, protocol, dec, pushed) ==
    IF ~MessageVerify(r, ident, protocol, Val(dec.hmacKey))
    THEN [ok |-> FALSE, err |-> "VerifyFailed", ratchet |-> r, plain |-> None,
          upd |-> 0, age |-> dec.age, pushed |-> pushed]
    ELSE [ok |-> TRUE, err |-> "", ratchet |-> r, plain |-> dec.plain,
          upd |-> 0, age |-> dec.age, pushed |-> pushed]

\* decrypt after receivingChain.decrypt returned on session r
DecryptVerify(r, ident, protocol, dec, pushed) ==
    IF ~MessageVerify(r, ident, protocol, Val(dec.hmacKey))
    THEN [ok |-> FALSE, err |-> "VerifyFailed", ratchet |-> r, plain |-> None,
          upd |-> 1, age |-> dec.age, pushed |-> pushed]
    ELSE [ok |-> TRUE, err |-> "", ratchet |-> r, plain |-> dec.plain,
          upd |-> 1, age |-> dec.age, pushed |-> pushed]

\* decrypt from the result dec of receivingChain.decrypt on: the chain is
\* left as decrypt left it; lastDecryptedCounter and the update event
\* follow only if it did not throw
DecryptOpened(r, ident, protocol, ref, dec, pushed) ==
    IF ~dec.ok
    THEN [ok |-> FALSE, err |-> dec.err,
          ratchet |-> [r EXCEPT !.heap[ref].receivingChain = Some(dec.chain)],
          plain |-> None, upd |-> 0, age |-> dec.age, pushed |-> pushed]
    ELSE DecryptVerify(
             [r EXCEPT !.heap[ref].receivingChain = Some(dec.chain),
                       !.heap[ref].lastDecryptedCounter =
                           Max2(@, protocol.message.counter)],
             ident, protocol, dec, pushed)

\* decrypt once step ref has a receiving chain
DecryptWithChain(r, ident, protocol, ref, t, pushed) ==
    With(ReceivingDecrypt(
             Val(r.heap[ref].receivingChain),
             protocol.message.cipherText, protocol.message.counter,
             createMinimalAAD(protocol.message.counter,
                              protocol.message.previousCounter),
             t),
         LAMBDA dec : DecryptOpened(r, ident, protocol, ref, dec, pushed))

\* decrypt when the session-global cache has no key for the message
DecryptByChain(r, ident, protocol, ref, t, pushed) ==
    With(IF ~IsSome(r.heap[ref].receivingChain)
         THEN DecryptNewChain(r, ref, protocol.message.senderRatchetKey)
         ELSE r,
         LAMBDA r2 :
             DecryptWithChain(
                 IF protocol.message.counter >
                        r2.heap[ref].lastDecryptedCounter + 1
                 THEN generateSkippedMessageKeys(r2, ref,
                          r2.heap[ref].lastDecryptedCounter + 1,
                          protocol.message.counter - 1)
                 ELSE r2,
                 ident, protocol, ref, t, pushed))

\* decrypt when the session-global cache had the key sk.key
DecryptBySkippedKey(r, ident, protocol, sk, pushed) ==
    With(decryptWithKey(r, ident, Val(sk.key), protocol),
         LAMBDA d :
             [ok |-> d.ok, err |-> d.err,
              ratchet |-> [r EXCEPT !.globalSkippedKeys = sk.globalSkippedKeys],
              plain |-> d.plain, upd |-> 0, age |-> -1, pushed |-> pushed])

\* decrypt once the step of the message is step ref of session r
DecryptAtStep(r, ident, protocol, ref, t, pushed) ==
    IF IsSome(r.heap[ref].ratchetKeyId)
    THEN With(consumeSkippedMessageKey(r, Val(r.heap[ref].ratchetKeyId),
                                       protocol.message.counter),
              LAMBDA sk :
                  IF IsSome(sk.key)
                  THEN DecryptBySkippedKey(r, ident, protocol, sk, pushed)
                  ELSE DecryptByChain(r, ident, protocol, ref, t, pushed))
    ELSE DecryptByChain(r, ident, protocol, ref, t, pushed)

\* decrypt after the window check; found is what getStep returned
DecryptInWindow(r, ident, protocol, t, found) ==
    IF IsSome(found)
    THEN DecryptAtStep(r, ident, protocol, Val(found), t, FALSE)
    ELSE DecryptAtStep(DecryptNewStep(r, protocol.message.senderRatchetKey),
                       ident, protocol, Len(r.heap) + 1, t, TRUE)

\* A decrypt that does not check the ratchet window
Decrypt_unchecked(r, ident, protocol, t) ==
    DecryptInWindow(r, ident, protocol, t,
                    getStep(r, protocol.message.senderRatchetKey))

\* AsymmetricRatchet.decrypt at time t.  The result: the session afterwards,
\* the plaintext (or the error thrown), the update events emitted, the age
\* of the cached chain key used (-1 if none) and whether a step was pushed.
Decrypt(r, ident, protocol, t) ==
    IF protocol.message.previousCounter < r.counter - r.maxSize
    THEN [ok |-> FALSE, err |-> "OutsideRatchetWindow", ratchet |-> r,
          plain |-> None, upd |-> 0, age |-> -1, pushed |-> FALSE]
    ELSE DecryptInWindow(r, ident, protocol, t,
                         getStep(r, protocol.message.senderRatchetKey))

-----------------------------------------------------------------------------
(* AsymmetricRatchet.create *)

\* create(identity, PreKeyBundleProtocol, options): the initiator.  fresh
\* is the pair generateRatchetKey returns.
CreateFromBundle(ident, bundle, limits, fresh) ==
    IF ~IdentityProtocolVerify(bundle.identity)
    THEN [ok |-> FALSE, err |-> "InvalidIdentityKey", ratchet |-> None]
    ELSE IF ~PreKeySignedVerify(bundle.preKeySigned, bundle.identity.signingKey)
    THEN [ok |-> FALSE, err |-> "InvalidSignedPreKey", ratchet |-> None]
    ELSE [ok |-> TRUE, err |-> "",
          ratchet |-> Some(NewRatchet(
              ident, limits,
              authenticateA(ident, fresh, bundle.identity.exchangeKey,
                            bundle.preKeySigned.key,
                            IF IsSome(bundle.preKey)
                            THEN Some(Val(bundle.preKey).key) ELSE None),
              fresh,
              [NewStep EXCEPT
                 !.remoteRatchetKey = Some(bundle.preKeySigned.key),
                 !.ratchetKeyId = Some(Thumbprint(bundle.preKeySigned.key))],
              RemoteIdentityFill(bundle.identity),
              IF IsSome(bundle.preKey) THEN Some(Val(bundle.preKey).id) ELSE None,
              Some(bundle.preKeySigned.id)))]

\* create(identity, PreKeyMessageProtocol, options), the responder, up to
\* its first suspension: await protocol.identity.verify()
RespVerify(pkm) ==
    IF IdentityProtocolVerify(Val(pkm.pre).identity)
    THEN [ok |-> TRUE, err |-> ""]
    ELSE [ok |-> FALSE, err |-> "InvalidIdentityKey"]

\* The one-time pre-key the PreKeyMessage cites, if the Identity has it
RespPreKey(ident, pre) ==
    IF IsSome(pre.preKeyId) THEN ArrGet(ident.preKeys, Val(pre.preKeyId))
    ELSE None

\* A lookup that forgets to remove the one-time pre-key it used
RespLookup_keep(ident, pkm) ==
    IF ~IsSome(ArrGet(ident.signedPreKeys, Val(pkm.pre).preKeySignedId))
    THEN [ok |-> FALSE, err |-> "SignedPreKeyNotFound", identity |-> ident,
          signedPreKey |-> None, preKey |-> None]
    ELSE [ok |-> TRUE, err |-> "", identity |-> ident,
          signedPreKey |-> ArrGet(ident.signedPreKeys,
                                  Val(pkm.pre).preKeySignedId),
          preKey |-> RespPreKey(ident, Val(pkm.pre))]

\* ... the synchronous block that follows: look up the signed pre-key, look
\* up and delete the one-time pre-key.  identity is the Identity afterwards.
RespLookup(ident, pkm) ==
    IF ~IsSome(ArrGet(ident.signedPreKeys, Val(pkm.pre).preKeySignedId))
    THEN [ok |-> FALSE, err |-> "SignedPreKeyNotFound", identity |-> ident,
          signedPreKey |-> None, preKey |-> None]
    ELSE [ok |-> TRUE, err |-> "",
          identity |-> IF IsSome(RespPreKey(ident, Val(pkm.pre)))
                       THEN [ident EXCEPT
                               !.preKeys = ArrDelete(@, Val(Val(pkm.pre).preKeyId))]
                       ELSE ident,
          signedPreKey |-> ArrGet(ident.signedPreKeys,
                                  Val(pkm.pre).preKeySignedId),
          preKey |-> RespPreKey(ident, Val(pkm.pre))]

\* ... and authenticateB with what the block found; the session returned
RespAuth(ident, pkm, limits, signedPreKey, preKey) ==
    NewRatchet(ident, limits,
               authenticateB(ident, signedPreKey,
                             Val(pkm.pre).identity.exchangeKey,
                             pkm.signed.message.senderRatchetKey, preKey),
               signedPreKey, NewStep,
               RemoteIdentityFill(Val(pkm.pre).identity), None, None)

-----------------------------------------------------------------------------
(* The two-party exchange of runDemo: Alice publishes a bundle, Bob creates *)
(* his session from it and sends; Alice creates hers from Bob's            *)
(* PreKeyMessage.  The transport may drop, reorder, repeat and modify.     *)

Alice == 1
Bob == 2
\* A key pair of somebody who is neither Alice nor an initiator
ForeignKey(role) == Key(Alice - 1, role, 0)
Parties == {Alice, Bob}
Peer(p) == IF p = Alice THEN Bob ELSE Alice

Plaintext(n) == <<"pt", n>>

\* The key a MAC was made with and the receiver key it was made over
MacKeyOf(signature) == signature[3]
ReceiverKeyOf(signature) == signature[2][1]

\* What the transport does to a MessageSignedProtocol on its way: it
\* changes ciphertext bytes, replaces the MAC, hands over a message whose
\* MAC was made for another receiver or by another sender identity, or
\* changes a header field
Variants == {"genuine", "flip", "sig"}
Tamper(protocol, variant) ==
    CASE variant = "flip" ->
           [protocol EXCEPT !.message.cipherText.flipped = TRUE]
      [] variant = "sig" ->
           [protocol EXCEPT !.signature = HMAC(ForeignKey("mac"), <<>>)]
      [] variant = "receiver" ->
           [protocol EXCEPT !.signature =
               signHMAC(MacKeyOf(@), ForeignKey("sig"), protocol.senderKey,
                        protocol.message)]
      [] variant = "sender" ->
           [protocol EXCEPT !.signature =
               signHMAC(MacKeyOf(@), ReceiverKeyOf(@), ForeignKey("sig"),
                        protocol.message)]
      [] variant = "ratchetKey" ->
           [protocol EXCEPT !.message.senderRatchetKey = ForeignKey("rk")]
      [] variant = "counter" ->
           [protocol EXCEPT !.message.counter = @ + 1]
      [] variant = "previousCounter" ->
           [protocol EXCEPT !.message.previousCounter = @ + 1]
      [] OTHER -> protocol

NoOp ==
    [op |-> "init", party |-> 0, idx |-> 0, variant |-> "", ok |-> TRUE,
     err |-> "", plain |-> None, upd |-> 0, age |-> -1, epoch |-> FALSE,
     first |-> FALSE, key |-> None]

NoHistory ==
    [seen |-> {}, hi |-> [p \in Parties |-> 0], clean |-> TRUE, okd |-> {},
     twice |-> FALSE, lost |-> {}, tampered |-> FALSE,
     x3dh |-> [p \in Parties |-> None]]

Init ==
    /\ identity = [p \in Parties |-> IdentityCreate(p, 1, 1)]
    /\ sess = [p \in Parties |-> None]
    /\ net = <<>>
    /\ now = 0
    /\ last = NoOp
    /\ hist = NoHistory
    /\ calls = <<>>

\* What may happen to a bundle before it reaches the initiator, and to a
\* PreKeyMessage before it reaches the responder
BundleVariants == {"genuine", "badIdentity", "badSignedPreKey"}
TamperBundle(bundle, variant) ==
    CASE variant = "badIdentity" ->
           [bundle EXCEPT !.identity.signature =
               CurveSign(ForeignKey("sig"), bundle.identity.exchangeKey)]
      [] variant = "badSignedPreKey" ->
           [bundle EXCEPT !.preKeySigned.signature =
               CurveSign(ForeignKey("sig"), bundle.preKeySigned.key)]
      [] OTHER -> bundle

\* The Identity Alice built her bundles from: the one she was created
\* with, before any one-time pre-key was deleted
Published == IdentityCreate(Alice, 1, Len(identity[Alice].preKeys))

\* Initiator i: AsymmetricRatchet.create(identity, bundle, options), the
\* bundle carrying Alice's signed pre-key 0 and one-time pre-key opk
CreateInitiator(i, opk, variant, limits) ==
    /\ ~IsSome(sess[i])
    /\ \E c \in {CreateFromBundle(
                    identity[i],
                    TamperBundle(MakeBundle(Published, 0, opk), variant),
                    limits, Key(i, "rk", 0))} :
           /\ sess' = [sess EXCEPT ![i] = c.ratchet]
           /\ last' = [NoOp EXCEPT !.op = "create", !.party = i,
                                   !.variant = variant,
                                   !.ok = c.ok, !.err = c.err]
           /\ hist' = [hist EXCEPT !.x3dh[i] =
                          IF c.ok THEN Some(Val(c.ratchet).rootKey) ELSE None]
    /\ UNCHANGED <<identity, net, now, calls>>

\* Alice: AsymmetricRatchet.create(alice, preKeyMsg, {limits}), the whole
\* call
CreateResponderWith(idx, limits) ==
    /\ ~IsSome(sess[Alice])
    /\ idx \in 1..Len(net)
    /\ IsSome(net[idx].msg.pre)
    /\ \E v \in {RespVerify(net[idx].msg)},
          l \in {RespLookup(identity[Alice], net[idx].msg)} :
          \E r \in {IF v.ok /\ l.ok
                    THEN Some(RespAuth(l.identity, net[idx].msg,
                                       limits,
                                       Val(l.signedPreKey), l.preKey))
                    ELSE None} :
           /\ identity' = IF v.ok THEN [identity EXCEPT ![Alice] = l.identity]
                          ELSE identity
           /\ sess' = [sess EXCEPT ![Alice] = r]
           /\ last' = [NoOp EXCEPT !.op = "create", !.party = Alice,
                                   !.idx = idx, !.ok = IsSome(r),
                                   !.err = IF ~v.ok THEN v.err ELSE l.err]
           /\ hist' = [hist EXCEPT !.x3dh[Alice] =
                          IF IsSome(r) THEN Some(Val(r).rootKey) ELSE None]
    /\ UNCHANGED <<net, now, calls>>

\* Alice: AsymmetricRatchet.create(alice, preKeyMsg), the whole call;
\* runDemo passes no limits
CreateResponder(idx) == CreateResponderWith(idx, DEFAULT_RATCHET_LIMITS)

\* p: ratchet.encrypt(Plaintext(n)); the message returned goes to the
\* transport
Send(p, max) ==
    /\ IsSome(sess[p])
    /\ Len(net) < max
    /\ \E e \in {Encrypt(Val(sess[p]), identity[p], Plaintext(Len(net) + 1),
                         Key(p, "rk", Val(sess[p]).counter + 1))} :
           /\ sess' = [sess EXCEPT ![p] = Some(e.ratchet)]
           /\ net' = IF e.ok
                     THEN Append(net, [from |-> p,
                                       plain |-> Plaintext(Len(net) + 1),
                                       msg |-> Val(e.out)])
                     ELSE net
           /\ last' = [NoOp EXCEPT !.op = "encrypt", !.party = p,
                                   !.idx = IF e.ok THEN Len(net) + 1 ELSE 0,
                                   !.ok = e.ok, !.err = e.err, !.upd = e.upd]
    /\ UNCHANGED <<identity, now, hist, calls>>

\* The receiving chain of the step of r for remoteRatchetKey, and the
\* step's lastDecryptedCounter; None if r has no such step or chain
RecvView(r, remoteRatchetKey) ==
    With(getStep(r, remoteRatchetKey), LAMBDA ref :
        IF IsSome(ref) /\ IsSome(r.heap[Val(ref)].receivingChain)
        THEN Some([chain |-> Val(r.heap[Val(ref)].receivingChain),
                   lastDecryptedCounter |-> r.heap[Val(ref)].lastDecryptedCounter])
        ELSE None)

\* Of the cached counters fresh of a chain at chain.counter, those dropped
\* as the oldest beyond MAX_CACHED_KEYS when the chain advances to counter
Evicted(chain, fresh, counter) ==
    IF counter \notin fresh /\ counter >= chain.counter
    THEN Smallest(fresh \cup (chain.counter..(counter - 1)),
                  Cardinality(fresh \cup (chain.counter..(counter - 1)))
                      - MAX_CACHED_KEYS)
    ELSE {}

\* The counters whose cached key a decrypt of counter at time t on chain
\* drops rather than uses
DroppedFrom(chain, counter, t) ==
    ExpiredCounters(chain, t)
        \cup Evicted(chain, (DOMAIN chain.messageKeys) \ ExpiredCounters(chain, t),
                     counter)

\* The counters whose cached key a decrypt of counter at time t drops
\* rather than uses: those cached for longer than MAX_CACHED_KEY_AGE, and,
\* when the chain is advanced, the oldest beyond MAX_CACHED_KEYS
DroppedKeys(before, counter, t) ==
    DroppedFrom(IF IsSome(before) THEN Val(before).chain
                ELSE NewReceivingChain(<<>>),
                counter, t)

\* The transport hands message idx, as variant, to its receiver, who calls
\* ratchet.decrypt on it
Deliver(idx, variant) ==
    /\ idx \in 1..Len(net)
    /\ IsSome(sess[Peer(net[idx].from)])
    /\ \E p \in {Peer(net[idx].from)},
          protocol \in {Tamper(net[idx].msg.signed, variant)} :
       \E rk \in {protocol.message.senderRatchetKey},
          d \in {Decrypt(Val(sess[p]), identity[p], protocol, now)} :
       \E dropped \in {IF d.err = "OutsideRatchetWindow" THEN {}
                       ELSE DroppedKeys(RecvView(Val(sess[p]), rk),
                                        protocol.message.counter, now)},
          cur \in {d.ratchet.heap[d.ratchet.currentStep]} :
           /\ sess' = [sess EXCEPT ![p] = Some(d.ratchet)]
           /\ last' = [op |-> "decrypt", party |-> p, idx |-> idx,
                       variant |-> variant, ok |-> d.ok, err |-> d.err,
                       plain |-> d.plain, upd |-> d.upd, age |-> d.age,
                       epoch |-> /\ cur.remoteRatchetKey = Some(rk)
                                 /\ ~IsSome(cur.sendingChain),
                       first |-> idx \notin hist.seen,
                       key |-> Some(rk)]
           /\ hist' = [hist EXCEPT
                 !.seen = @ \cup {idx},
                 !.hi[p] = Max2(@, idx),
                 !.clean = @ /\ variant = "genuine" /\ idx > hist.hi[p],
                 !.okd = IF d.ok THEN @ \cup {idx} ELSE @,
                 !.twice = @ \/ (d.ok /\ idx \in hist.okd),
                 !.lost = @ \cup { <<p, rk, c>> : c \in dropped },
                 !.tampered = @ \/ variant # "genuine"]
    /\ UNCHANGED <<identity, net, now, calls>>

\* Some receiving chain of some session holds a cached message key
SomeKeyCached ==
    \E p \in Parties : IsSome(sess[p]) /\
        \E i \in DOMAIN Val(sess[p]).heap :
            /\ IsSome(Val(sess[p]).heap[i].receivingChain)
            /\ DOMAIN Val(Val(sess[p]).heap[i].receivingChain).messageKeys # {}

\* Time passes.  The clock is read only to stamp a cached key and to age
\* it, so only the time that passes while a key is cached is counted.
Tick ==
    /\ now < MaxTime
    /\ SomeKeyCached
    /\ now' = now + 1
    /\ UNCHANGED <<identity, sess, net, last, hist, calls>>

\* A transport that drops, reorders and repeats, but does not modify
Next ==
    \/ CreateInitiator(Bob, Some(0), "genuine", BobLimits)
    \/ \E idx \in 1..MaxSend : CreateResponder(idx)
    \/ \E p \in Parties : Send(p, MaxSend)
    \/ \E idx \in 1..MaxSend : Deliver(idx, "genuine")
    \/ Tick

Spec == Init /\ [][Next]_vars

\* A transport that also modifies what it carries
NextTamper ==
    \/ CreateInitiator(Bob, Some(0), "genuine", BobLimits)
    \/ \E idx \in 1..MaxTamperSend : CreateResponder(idx)
    \/ \E p \in Parties : Send(p, MaxTamperSend)
    \/ \E idx \in 1..MaxTamperSend, variant \in Variants : Deliver(idx, variant)

SpecTamper == Init /\ [][NextTamper]_vars

-----------------------------------------------------------------------------
(* Properties of the exchange *)

\* The last operation was a decrypt and it returned the plaintext that was
\* passed to the encrypt that produced the message
ReturnedPlaintext ==
    /\ last.op = "decrypt"
    /\ last.ok
    /\ last.plain = Some(net[last.idx].plain)

\* The counter in the header of the message the last decrypt was given
LastCounter == net[last.idx].msg.signed.message.counter

\* C1: when every message so far was delivered unmodified, at most once and
\* in sending order per direction, the decrypt just performed returned
\* exactly the plaintext passed to the corresponding encrypt
C1_EndToEnd ==
    (last.op = "decrypt" /\ hist.clean) => ReturnedPlaintext

\* C1 witness: Alice decrypts, in order, a message Bob sent under the
\* ratchet key of his first rotation
C1_Witness ==
    /\ last.op = "decrypt" /\ hist.clean /\ last.ok
    /\ last.party = Alice
    /\ last.key = Some(Key(Bob, "rk", 1))

ReceivingSteps(r) ==
    { i \in DOMAIN r.heap : IsSome(r.heap[i].receivingChain) }

\* C9: in every state, for every session, the session-global skipped-key
\* cache holds at most limits.maxSkippedKeys entries and the receiving
\* chain of every step holds at most limits.maxMessageKeysPerStep keys
C9_BoundedMemory ==
    \A p \in DOMAIN sess : IsSome(sess[p]) =>
        \A r \in {Val(sess[p])} :
            /\ Cardinality(DOMAIN r.globalSkippedKeys) <= r.limits.maxSkippedKeys
            /\ \A i \in ReceivingSteps(r) :
                  Cardinality(DOMAIN Val(r.heap[i].receivingChain).messageKeys)
                      <= r.limits.maxMessageKeysPerStep

\* C10: a decrypt that took a cached key older than the session's
\* limits.skippedKeyTTL did not return a plaintext
C10_ExpiredKeyUnused ==
    (/\ last.op = "decrypt"
     /\ last.age > Val(sess[last.party]).limits.skippedKeyTTL)
    => ~last.ok

\* The receiving chain state as it is once the keys older than
\* MAX_CACHED_KEY_AGE at time t are gone
Aged(view, t) ==
    IF IsSome(view)
    THEN Some([Val(view) EXCEPT !.chain = cleanupExpiredKeys(@, t)])
    ELSE None

\* C3: a decrypt of a modified message that fails on the AEAD tag or on the
\* MAC leaves the receiving chain of the message's DH step as it was (chain
\* key, counter, cached keys, lastDecryptedCounter)
C3_FailedDecryptKeepsChain ==
    [][(/\ last'.op = "decrypt"
        /\ last'.variant # "genuine"
        /\ last'.err \in {"DecryptFailed", "VerifyFailed"}
        /\ IsSome(sess[last'.party])
        /\ IsSome(RecvView(Val(sess[last'.party]), Val(last'.key))))
       => RecvView(Val(sess'[last'.party]), Val(last'.key))
            = Aged(RecvView(Val(sess[last'.party]), Val(last'.key)), now)]_vars

-----------------------------------------------------------------------------
(* Session creation: several initiators fetch bundles of Alice and send    *)
(* their first message; Alice's application calls create on the            *)
(* PreKeyMessages it receives, without waiting for one call to return      *)
(* before it makes the next.  A call runs up to its first await (the       *)
(* verification of the identity), then through the synchronous lookup up   *)
(* to the await of authenticateB, then returns.                            *)

\* The initiators (Bob and one more), and the numbers of one-time pre-keys
\* Alice may have been created with
Initiators == {Bob, Bob + 1}
PreKeyAmounts == {1, 2}

\* The one-time pre-key a bundle carries: none, or the one with id j
PreKeyChoices == {None} \cup { Some(j) : j \in 0..1 }

\* Initiator i sends its first message, the PreKeyMessage
FirstSend(i) ==
    /\ IsSome(sess[i])
    /\ ~IsSome(Val(sess[i]).heap[1].sendingChain)
    /\ Send(i, Cardinality(Initiators))

MessageVariants == {"genuine", "badIdentity", "absentPreKey"}
TamperPreKeyMessage(pkm, variant, absentId) ==
    CASE variant = "badIdentity" ->
           [pkm EXCEPT !.pre[1].identity.signature =
               CurveSign(ForeignKey("sig"), pkm.pre[1].identity.exchangeKey)]
      [] variant = "absentPreKey" ->
           [pkm EXCEPT !.pre[1].preKeyId = Some(absentId)]
      [] OTHER -> pkm

InitCreate ==
    /\ \E preKeyAmount \in PreKeyAmounts :
          identity = [p \in {Alice} \cup Initiators |->
                         IF p = Alice THEN IdentityCreate(Alice, 1, preKeyAmount)
                         ELSE IdentityCreate(p, 1, 1)]
    /\ sess = [p \in Initiators |-> None]
    /\ net = <<>>
    /\ now = 0
    /\ last = NoOp
    /\ hist = [NoHistory EXCEPT !.x3dh = [p \in Initiators |-> None]]
    /\ calls = <<>>

\* Alice's application calls AsymmetricRatchet.create(alice, message idx as
\* variant): the call runs to await protocol.identity.verify()
StartCreate(idx, variant) ==
    /\ Len(calls) < MaxCalls
    /\ idx \in 1..Len(net)
    /\ IsSome(net[idx].msg.pre)
    /\ calls' = Append(calls,
          [pc |-> "verifying", idx |-> idx, variant |-> variant,
           pkm |-> TamperPreKeyMessage(net[idx].msg, variant,
                                       Len(identity[Alice].preKeys)),
           err |-> "", signedPreKey |-> None, preKey |-> None,
           lengthBefore |-> 0, lengthAfter |-> 0,
           keysBefore |-> 0, keysAfter |-> 0, ratchet |-> None])
    /\ UNCHANGED <<identity, sess, net, now, last, hist>>

\* Call k resumes after the verification: it throws, or runs the lookup of
\* the pre-keys up to await authenticateB(...)
ResumeLookup(k) ==
    /\ k \in DOMAIN calls
    /\ calls[k].pc = "verifying"
    /\ \E v \in {RespVerify(calls[k].pkm)},
          l \in {RespLookup(identity[Alice], calls[k].pkm)} :
           IF ~v.ok \/ ~l.ok
           THEN /\ calls' = [calls EXCEPT
                      ![k].pc = "failed",
                      ![k].err = IF ~v.ok THEN v.err ELSE l.err]
                /\ UNCHANGED identity
           ELSE /\ calls' = [calls EXCEPT
                      ![k].pc = "authenticating",
                      ![k].signedPreKey = l.signedPreKey,
                      ![k].preKey = l.preKey,
                      ![k].lengthBefore = Len(identity[Alice].preKeys),
                      ![k].lengthAfter = Len(l.identity.preKeys),
                      ![k].keysBefore = Cardinality(ArrKeys(identity[Alice].preKeys)),
                      ![k].keysAfter = Cardinality(ArrKeys(l.identity.preKeys))]
                /\ identity' = [identity EXCEPT ![Alice] = l.identity]
    /\ UNCHANGED <<sess, net, now, last, hist>>

\* Call k resumes after authenticateB and returns the session
ReturnSession(k) ==
    /\ k \in DOMAIN calls
    /\ calls[k].pc = "authenticating"
    /\ calls' = [calls EXCEPT
          ![k].pc = "done",
          ![k].ratchet = Some(RespAuth(identity[Alice], calls[k].pkm,
                                       DEFAULT_RATCHET_LIMITS,
                                       Val(calls[k].signedPreKey),
                                       calls[k].preKey))]
    /\ UNCHANGED <<identity, sess, net, now, last, hist>>

NextCreate ==
    \/ \E i \in Initiators, opk \in PreKeyChoices, variant \in BundleVariants :
          /\ IsSome(opk) => Val(opk) < Len(identity[Alice].preKeys)
          /\ CreateInitiator(i, opk, variant, DEFAULT_RATCHET_LIMITS)
    \/ \E i \in Initiators : FirstSend(i)
    \/ \E idx \in 1..Cardinality(Initiators), variant \in MessageVariants :
          StartCreate(idx, variant)
    \/ \E k \in 1..MaxCalls : ResumeLookup(k)
    \/ \E k \in 1..MaxCalls : ReturnSession(k)

SpecCreate == InitCreate /\ [][NextCreate]_vars

-----------------------------------------------------------------------------
(* Properties of session creation *)

\* The one-time pre-key id the message of call c cites (None if it cites
\* none), and the calls that got past the lookup
Cited(c) == Val(c.pkm.pre).preKeyId
PastLookup == { k \in DOMAIN calls : calls[k].pc \in {"authenticating", "done"} }

\* C4: a responder-side create on an initiator's unmodified first message
\* whose pre-key selection is valid (it cites no one-time pre-key, or one
\* the responder still holds) returns a session whose root key is the root
\* key the initiator's create computed
C4_X3DHAgreement ==
    \A k \in DOMAIN calls :
        (/\ calls[k].pc = "done"
         /\ calls[k].variant = "genuine"
         /\ IsSome(Cited(calls[k])) => IsSome(calls[k].preKey))
        => Val(calls[k].ratchet).rootKey
             = Val(hist.x3dh[net[calls[k].idx].from])

\* C4 witness: one call returned with a one-time pre-key, another without
C4_Witness ==
    \E k1, k2 \in DOMAIN calls :
        /\ calls[k1].pc = "done" /\ calls[k1].variant = "genuine"
        /\ IsSome(calls[k1].preKey)
        /\ calls[k2].pc = "done" /\ calls[k2].variant = "genuine"
        /\ ~IsSome(Cited(calls[k2]))

\* C5: a responder-side create whose message cites a one-time pre-key that
\* the responder does not hold (absent, or consumed by an earlier message)
\* fails: it does not get past the lookup
C5_UnknownPreKey ==
    \A k \in PastLookup :
        IsSome(Cited(calls[k])) => IsSome(calls[k].preKey)

\* C6: over all responder-side create calls on one Identity, however they
\* interleave, at most one obtains the private key of one-time pre-key j
C6_PreKeyUsedOnce ==
    \A j \in 0..(Len(identity[Alice].preKeys) - 1) :
        Cardinality({ k \in DOMAIN calls :
                        calls[k].preKey = Some(Key(Alice, "opk", j)) }) <= 1

\* C6 witness: two calls that were both waiting for their verification
\* cite the same pre-key, both got past the lookup, one obtained the key
C6_Witness ==
    \E k1, k2 \in PastLookup :
        /\ k1 # k2
        /\ IsSome(Cited(calls[k1]))
        /\ Cited(calls[k1]) = Cited(calls[k2])
        /\ IsSome(calls[k1].preKey)
        /\ ~IsSome(calls[k2].preKey)

\* C7: a responder-side create that used one-time pre-key j leaves the list
\* of one-time pre-keys one shorter; the list of an Identity created with
\* one one-time pre-key has length 0 afterwards
C7_ListShrinks ==
    \A k \in PastLookup :
        IsSome(calls[k].preKey) =>
            /\ calls[k].lengthAfter = calls[k].lengthBefore - 1
            /\ calls[k].lengthBefore = 1 => Len(identity[Alice].preKeys) = 0

\* The errors create throws for an identity it does not accept
BadIdentity == {"InvalidIdentityKey", "InvalidSignedPreKey"}

\* C8: create on a bundle whose identity signature or signed pre-key
\* signature does not verify, and create on a PreKeyMessage whose identity
\* signature does not verify, throw before any key agreement: no session,
\* no root key, no pre-key taken
C8_BadIdentity ==
    /\ (last.op = "create" /\ last.variant \in {"badIdentity", "badSignedPreKey"})
       => /\ ~last.ok
          /\ last.err \in BadIdentity
          /\ ~IsSome(sess[last.party])
          /\ ~IsSome(hist.x3dh[last.party])
    /\ \A k \in DOMAIN calls :
          (calls[k].variant = "badIdentity" /\ calls[k].pc # "verifying")
          => /\ calls[k].pc = "failed"
             /\ calls[k].err \in BadIdentity
             /\ ~IsSome(calls[k].preKey)
             /\ ~IsSome(calls[k].ratchet)

\* C8 witness: a responder-side call has failed on the identity signature
\* and an initiator's create has just failed on the signed pre-key
C8_Witness ==
    /\ \E k \in DOMAIN calls :
          calls[k].variant = "badIdentity" /\ calls[k].pc = "failed"
    /\ last.op = "create" /\ last.variant = "badSignedPreKey" /\ ~last.ok

-----------------------------------------------------------------------------
(* The step stack on its own: a DHRatchetStepStackEnhanced driven through  *)
(* its public methods push, storeSkippedMessageKey and                     *)
(* consumeSkippedMessageKey.  sess[Alice] holds the stack.                  *)

MaxPush == 3
MaxStore == 3
StackCounters == 0..1

\* The entry of the session-global cache that storeSkippedMessageKey
\* removes as the oldest: least timestamp, the earliest stored among equals
OldestSkipped(cache) ==
    CHOOSE x \in DOMAIN cache : \A y \in DOMAIN cache :
        \/ cache[x].timestamp < cache[y].timestamp
        \/ /\ cache[x].timestamp = cache[y].timestamp
           /\ cache[x].seq <= cache[y].seq

\* The place of a new entry in the insertion order of the cache
NextSeq(cache) ==
    IF DOMAIN cache = {} THEN 1
    ELSE 1 + cache[CHOOSE x \in DOMAIN cache :
                     \A y \in DOMAIN cache : cache[x].seq >= cache[y].seq].seq

\* storeSkippedMessageKey: the cache after its limits were enforced
EnforceSkippedLimit(cache, r, t) ==
    IF Cardinality(DOMAIN cache) >= r.limits.maxSkippedKeys
    THEN With(cleanupExpiredSkippedKeys([r EXCEPT !.globalSkippedKeys = cache], t),
              LAMBDA c :
                  IF Cardinality(DOMAIN c) >= r.limits.maxSkippedKeys
                     /\ DOMAIN c # {}
                  THEN MapRemove(c, OldestSkipped(c))
                  ELSE c)
    ELSE cache

\* The cache with the entry for compositeKey written at the place it has,
\* or appended
PutSkipped(cache, compositeKey, messageKey, t) ==
    MapPut(cache, compositeKey,
           [ratchetKeyId |-> compositeKey[1], messageCounter |-> compositeKey[2],
            messageKey |-> messageKey, timestamp |-> t,
            seq |-> IF compositeKey \in DOMAIN cache
                    THEN cache[compositeKey].seq ELSE NextSeq(cache)])

\* DHRatchetStepStackEnhanced.storeSkippedMessageKey at time t
storeSkippedMessageKey(r, ratchetKeyId, messageCounter, messageKey, t) ==
    [r EXCEPT !.globalSkippedKeys =
        PutSkipped(EnforceSkippedLimit(@, r, t),
                   <<ratchetKeyId, messageCounter>>, messageKey, t)]

\* new DHRatchetStepStackEnhanced(limits)
NewStack(limits) ==
    [heap |-> <<>>, items |-> <<>>,
     maxSize |-> IF limits.maxRatchetSteps # 0 THEN limits.maxRatchetSteps
                 ELSE DEFAULT_MAX_RATCHET_STEPS,
     ratchetKeyLookup |-> [x \in {} |-> 0],
     globalSkippedKeys |-> [x \in {} |-> 0],
     limits |-> limits]

\* The limits the stack is constructed with
StackLimits ==
    { [BobLimits EXCEPT !.maxRatchetSteps = n, !.maxSkippedKeys = k] :
         n \in 1..2, k \in {0, 2} }

InitStack ==
    /\ identity = [p \in Parties |-> IdentityCreate(p, 1, 1)]
    /\ \E limits \in StackLimits : sess = [p \in {Alice} |-> Some(NewStack(limits))]
    /\ net = <<>>
    /\ now = 0
    /\ last = NoOp
    /\ hist = NoHistory
    /\ calls = <<>>

\* The ratchetKeyId of the step a push on a full stack r slices off
Oldest(r) ==
    IF Len(r.items) = r.maxSize /\ Len(r.items) > 0
    THEN r.heap[r.items[1]].ratchetKeyId
    ELSE None

\* steps.push(step), the step carrying the remote ratchet key rk n, with
\* its ratchetKeyId set or not
PushStep(n, withId) ==
    /\ Len(Val(sess[Alice]).heap) < MaxPush
    /\ \E r \in {Val(sess[Alice])}, rk \in {Key(Bob, "rk", n)} :
          /\ getStep(r, rk) = None
          /\ sess' = [sess EXCEPT ![Alice] = Some(StepsPush(
                 [r EXCEPT !.heap = Append(@,
                     [NewStep EXCEPT
                        !.remoteRatchetKey = Some(rk),
                        !.ratchetKeyId = IF withId THEN Some(Thumbprint(rk))
                                         ELSE None])],
                 Len(r.heap) + 1))]
          /\ last' = [NoOp EXCEPT !.op = "push", !.party = Alice,
                                  !.key = Oldest(r)]
    /\ UNCHANGED <<identity, net, now, hist, calls>>

\* steps.storeSkippedMessageKey(id of rk n, counter, key)
StoreSkipped(n, counter) ==
    /\ NextSeq(Val(sess[Alice]).globalSkippedKeys) <= MaxStore
    /\ sess' = [sess EXCEPT ![Alice] = Some(
           storeSkippedMessageKey(Val(sess[Alice]),
                                  Thumbprint(Key(Bob, "rk", n)), counter,
                                  <<"mk", n, counter>>, now))]
    /\ last' = [NoOp EXCEPT !.op = "store", !.party = Alice]
    /\ UNCHANGED <<identity, net, now, hist, calls>>

\* steps.consumeSkippedMessageKey(id of rk n, counter)
ConsumeSkipped(n, counter) ==
    /\ hasSkippedMessageKey(Val(sess[Alice]), Thumbprint(Key(Bob, "rk", n)), counter)
    /\ \E c \in {consumeSkippedMessageKey(Val(sess[Alice]),
                                          Thumbprint(Key(Bob, "rk", n)), counter)} :
          /\ sess' = [sess EXCEPT ![Alice] =
                         Some([Val(sess[Alice]) EXCEPT
                                 !.globalSkippedKeys = c.globalSkippedKeys])]
          /\ last' = [NoOp EXCEPT !.op = "consume", !.party = Alice,
                                  !.ok = IsSome(c.key)]
    /\ UNCHANGED <<identity, net, now, hist, calls>>

\* Time passes while the cache holds a key
StackTick ==
    /\ now < MaxTime
    /\ DOMAIN Val(sess[Alice]).globalSkippedKeys # {}
    /\ now' = now + 1
    /\ UNCHANGED <<identity, sess, net, last, hist, calls>>

NextStack ==
    \/ \E n \in 0..(MaxPush - 1), withId \in BOOLEAN : PushStep(n, withId)
    \/ \E n \in 0..(MaxPush - 1), counter \in StackCounters : StoreSkipped(n, counter)
    \/ \E n \in 0..(MaxPush - 1), counter \in StackCounters : ConsumeSkipped(n, counter)
    \/ StackTick

SpecStack == InitStack /\ [][NextStack]_vars

\* C11: the stack never holds more than maxRatchetSteps steps, and after a
\* push that evicted the oldest step the session-global cache holds no
\* entry stored under that step's id
C11_RingEviction ==
    \A p \in DOMAIN sess : IsSome(sess[p]) =>
        /\ Len(Val(sess[p]).items) <= Val(sess[p]).maxSize
        /\ (last.op = "push" /\ IsSome(last.key))
           => \A x \in DOMAIN Val(sess[p]).globalSkippedKeys :
                  x[1] # Val(last.key)

-----------------------------------------------------------------------------
(* The ratchet window: a long exchange in which the responder was created *)
(* with maxRatchetSteps = 2.  The transport delivers in sending order,     *)
(* holds back one message at a time, and may hand over one message late   *)
(* or a second time.                                                       *)

MaxWindowSend == 7

WindowLimits == [DEFAULT_RATCHET_LIMITS EXCEPT !.maxRatchetSteps = 2]

\* The messages not handed over that a delivery of idx leaves behind a
\* later one of the same receiver
HeldBack(idx) ==
    { j \in 1..Len(net) :
        /\ j \notin hist.seen \cup {idx}
        /\ \/ j < hist.hi[Peer(net[j].from)]
           \/ net[j].from = net[idx].from /\ j < idx }

\* Message idx is handed to its receiver: a message later than all those
\* the receiver was handed so far, the transport holding back at most one
\* message at a time, or the one late message of the run
DeliverLate(idx) ==
    /\ idx \in 1..Len(net)
    /\ \/ /\ idx > hist.hi[Peer(net[idx].from)]
          /\ \A j, k \in HeldBack(idx) : j = k
       \/ hist.clean
    /\ Deliver(idx, "genuine")

\* p sends, between two messages it decrypts no more messages than a
\* receiving chain caches keys for
SendBurst(p) ==
    /\ IsSome(sess[p])
    /\ \A chain \in {Val(sess[p]).heap[Val(sess[p]).currentStep].sendingChain} :
          IsSome(chain) => Val(chain).counter < MAX_CACHED_KEYS
    /\ Send(p, MaxWindowSend)

NextWindow ==
    \/ CreateInitiator(Bob, Some(0), "genuine", DEFAULT_RATCHET_LIMITS)
    \/ \E idx \in 1..MaxWindowSend : CreateResponderWith(idx, WindowLimits)
    \/ \E p \in Parties : SendBurst(p)
    \/ \E idx \in 1..MaxWindowSend : DeliverLate(idx)

SpecWindow == Init /\ [][NextWindow]_vars

\* The previousCounter in the header of the message the last decrypt was
\* given
LastPreviousCounter == net[last.idx].msg.signed.message.previousCounter

\* The last decrypt was given a message from before the receiver's window
BeforeWindow ==
    /\ last.op = "decrypt"
    /\ LastPreviousCounter
         < Val(sess[last.party]).counter - Val(sess[last.party]).limits.maxRatchetSteps

\* C12: a decrypt of a message whose previousCounter is smaller than the
\* session's counter minus maxRatchetSteps fails with the outside-window
\* error and returns no plaintext
C12_OutsideWindow ==
    BeforeWindow => (~last.ok /\ last.err = "OutsideRatchetWindow"
                     /\ last.plain = None)

\* C12 witness: with maxRatchetSteps = 2, after three rotations of the
\* receiver a message sent before its first is rejected
C12_Witness ==
    /\ BeforeWindow
    /\ Val(sess[last.party]).limits.maxRatchetSteps = 2
    /\ Val(sess[last.party]).counter = 3
    /\ LastPreviousCounter = 0
    /\ last.err = "OutsideRatchetWindow"

-----------------------------------------------------------------------------
(* Replays, under the transport of Spec *)

\* The last operation was a decrypt of a message that an earlier decrypt
\* of the same session had returned the plaintext of
RepeatOfDecrypted ==
    /\ last.op = "decrypt"
    /\ last.idx \in hist.okd
    /\ last.ok => hist.twice

\* C13 as stated: a replay of a message that was already decrypted fails
\* with the duplicate error (the counter is behind the chain and its key is
\* not cached) and returns no plaintext; no message decrypts twice
C13_ReplayDuplicate ==
    /\ ~hist.twice
    /\ RepeatOfDecrypted
       => (~last.ok /\ last.plain = None /\ last.err = "CounterTooOld")

\* C13 amended: the replay fails and returns no plaintext; the error is the
\* duplicate error unless the message lies before the ratchet window, which
\* decrypt checks first; no message decrypts twice
C13_ReplayRejected ==
    /\ ~hist.twice
    /\ RepeatOfDecrypted
       => /\ ~last.ok
          /\ last.plain = None
          /\ last.err = IF BeforeWindow THEN "OutsideRatchetWindow"
                        ELSE "CounterTooOld"

\* C13 witness: a message that was decrypted, and is not the last one its
\* chain derived a key for, is handed over again and rejected as a duplicate
C13_Witness ==
    /\ RepeatOfDecrypted
    /\ last.err = "CounterTooOld"
    /\ LastCounter + 1 < Val(RecvView(Val(sess[last.party]), Val(last.key))).chain.counter

-----------------------------------------------------------------------------
(* Forged messages: a transport that reorders, drops and repeats, and     *)
(* once hands over a message with changed ciphertext, a replaced MAC, a    *)
(* MAC made for another receiver or by another sender, or a changed        *)
(* header field.                                                           *)

Forgeries ==
    {"genuine", "flip", "sig", "receiver", "sender", "ratchetKey", "counter",
     "previousCounter"}

\* Message idx is handed over as variant; one message of a run is forged
DeliverForged(idx, variant) ==
    /\ variant # "genuine" => ~hist.tampered
    /\ Deliver(idx, variant)

NextForge ==
    \/ CreateInitiator(Bob, Some(0), "genuine", BobLimits)
    \/ \E idx \in 1..MaxTamperSend : CreateResponder(idx)
    \/ \E p \in Parties : Send(p, MaxTamperSend)
    \/ \E idx \in 1..MaxTamperSend, variant \in Forgeries :
          DeliverForged(idx, variant)

SpecForge == Init /\ [][NextForge]_vars

\* The MessageSignedProtocol the last decrypt was given
LastProtocol == Tamper(net[last.idx].msg.signed, last.variant)

\* The MAC of the message the last decrypt was given is the MAC, under
\* the HMAC key of the message, over the receiver's own signing key, the
\* signing key of the remote identity of its session, and the message
LastMacVerifies ==
    LastProtocol.signature =
        signHMAC(MacKeyOf(net[last.idx].msg.signed.signature),
                 identity[last.party].signingKey,
                 Val(sess[last.party]).remoteIdentity.signingKey,
                 LastProtocol.message)

\* C14: decrypt returns a plaintext only if the MAC of the message verifies
\* over (receiver's signing key, remote identity's signing key, message);
\* a message with a MAC for another receiver or by another sender, or with
\* a changed senderRatchetKey, counter, previousCounter or ciphertext, is
\* rejected
C14_MacRequired ==
    last.op = "decrypt" =>
        /\ last.ok => (LastMacVerifies /\ last.variant = "genuine")
        /\ last.variant # "genuine" => (~last.ok /\ last.plain = None)

\* C14 witness: a message whose MAC was made for another receiver, with
\* ciphertext and header untouched, was rejected on the MAC after a
\* message of the same sender had been decrypted
C14_Witness ==
    /\ last.op = "decrypt"
    /\ last.variant = "receiver"
    /\ last.err = "VerifyFailed"
    /\ hist.okd # {}

-----------------------------------------------------------------------------
(* Forward secrecy of the receiving chains, under the transport of Spec *)

\* The cipher keys the next n clicks of a chain give
RECURSIVE KeysAhead(_, _)
KeysAhead(chain, n) ==
    IF n <= 0 THEN {}
    ELSE {click(chain).cipher} \cup KeysAhead(click(chain).chain, n - 1)

\* The values of a map
Values(map) == { map[k] : k \in DOMAIN map }

\* The cipher keys session r holds or can derive from a chain key it
\* holds: for each step with a receiving chain the keys the chain holds
\* for skipped counters and those its chain key still leads to, the keys
\* of the step's own table, and the keys of the session-global cache
Retained(r) ==
    UNION { Values(Val(r.heap[i].receivingChain).messageKeys)
              \cup KeysAhead(Val(r.heap[i].receivingChain), MaxSend)
              \cup Values(r.heap[i].skippedMessageKeys)
            : i \in ReceivingSteps(r) }
      \cup { r.globalSkippedKeys[x].messageKey : x \in DOMAIN r.globalSkippedKeys }

\* The AES key message idx was encrypted under
AesKeyOf(idx) == net[idx].msg.signed.message.cipherText.key

\* C15: once a decrypt has returned the plaintext of a message, the
\* receiver's session holds no key of that message: not in a cache, and the
\* chain key of its step has moved past the message's counter
C15_ForwardSecrecy ==
    \A idx \in hist.okd :
        /\ IsSome(sess[Peer(net[idx].from)])
        /\ \A k \in Retained(Val(sess[Peer(net[idx].from)])) :
              MessageKeysOf(k).aesKey # AesKeyOf(idx)

\* C15 witness: a decrypt at a counter returned the plaintext while the
\* chain still holds the key of an earlier counter that was not yet
\* received, and a key of the chain it reached by clicking
C15_Witness ==
    /\ last.op = "decrypt" /\ last.ok /\ last.age < 0
    /\ \E c \in DOMAIN Val(RecvView(Val(sess[last.party]), Val(last.key))).chain.messageKeys :
          c < LastCounter
    /\ LastCounter > 0

-----------------------------------------------------------------------------
(* Concurrent calls on one session.  An application invokes encrypt and    *)
(* decrypt on a session without awaiting the calls it made before.  Each   *)
(* call is queued by queuePromise; its body runs from one await to the     *)
(* next in one step, and the steps of different calls interleave.  A call  *)
(* record holds the promise of the call, its place in the body and the     *)
(* variables of the body that live across an await.                        *)

\* A call as queuePromise leaves it: prev is the promise it was chained
\* to (None for Promise.resolve()), registered says that promises[kind] is
\* the promise of this call, cleared that the callback queuePromise hung
\* on the promise has run
NewCall(kind, arg, prev) ==
    [kind |-> kind, arg |-> arg, pc |-> "queued", prev |-> prev,
     registered |-> TRUE, cleared |-> FALSE,
     step |-> 0, chainStep |-> 0, dh |-> None, keys |-> None, ck |-> None,
     cipher |-> None, chain |-> None, fresh |-> None, counter |-> -1,
     previousCounter |-> -1, pre |-> None, age |-> -1,
     out |-> None, err |-> ""]

Settled(c) == c.pc \in {"fulfilled", "rejected"}

\* this.promises[kind]: the call whose promise it is, or None
Promises(cs, kind) ==
    IF \E k \in DOMAIN cs : cs[k].kind = kind /\ cs[k].registered
    THEN Some(CHOOSE k \in DOMAIN cs : cs[k].kind = kind /\ cs[k].registered)
    ELSE None

\* A body at an await, rejected, or returned
Suspend(r, c, pc) == [r |-> r, c |-> [c EXCEPT !.pc = pc]]
Reject(r, c, err) == [r |-> r, c |-> [c EXCEPT !.pc = "rejected", !.err = err]]
Fulfil(r, c, out) == [r |-> r, c |-> [c EXCEPT !.pc = "fulfilled", !.out = Some(out)]]

\* createChain up to await Curve.deriveBytes(ourRatchetKey, theirRatchetKey)
ChainDerive(r, c, theirRatchetKey, pc) ==
    Suspend(r, [c EXCEPT !.dh = Some(DeriveBytes(r.currentRatchetKey, theirRatchetKey))], pc)

\* createChain from there to await Secret.HKDF(derivedBytes, 2, this.rootKey, ...)
ChainHKDF(r, c, pc) ==
    Suspend(r, [c EXCEPT !.keys = Some(HKDF(Val(c.dh), 2, r.rootKey, INFO_RATCHET))], pc)

\* createChain from there to its return: this.rootKey = rootKey
ChainReturn(r, c, chain, pc) ==
    Suspend([r EXCEPT !.rootKey = Val(c.keys)[1]],
            [c EXCEPT !.chain = Some(chain)], pc)

\* encrypt, lines 323-337: the call of sendingChain.encrypt, up to the
\* await of calculateKey in click
EncSend(r, c) ==
    IF ~IsSome(r.heap[r.currentStep].sendingChain)
    THEN Reject(r, c, "NoSendingChain")
    ELSE Suspend(r,
             [c EXCEPT !.chainStep = r.currentStep,
                       !.counter = Val(r.heap[r.currentStep].sendingChain).counter,
                       !.previousCounter = r.counter,
                       !.ck = Some(Val(r.heap[r.currentStep].sendingChain).rootKey)],
             "e_click")

\* encrypt, lines 312-321: the sending chain of the current step
EncChain(r, c) ==
    IF IsSome(r.heap[r.currentStep].sendingChain) THEN EncSend(r, c)
    ELSE IF ~IsSome(r.heap[r.currentStep].remoteRatchetKey)
    THEN Reject(r, c, "EmptyRemoteRatchetKey")
    ELSE ChainDerive(r, [c EXCEPT !.step = r.currentStep],
                     Val(r.heap[r.currentStep].remoteRatchetKey), "e_derive")

\* encrypt, lines 305-309: close the ratchet step
EncBegin(r, c) ==
    IF /\ IsSome(r.heap[r.currentStep].receivingChain)
       /\ ~IsSome(r.heap[r.currentStep].sendingChain)
    THEN Suspend([r EXCEPT !.counter = @ + 1],
                 [c EXCEPT !.fresh = Some(Key(r.id, "rk", r.counter + 1))],
                 "e_genkey")
    ELSE EncChain(r, c)

\* click after calculateKey returned: the chain key and counter advance
EncClick(r, c) ==
    Suspend([r EXCEPT !.heap[c.chainStep].sendingChain =
                Some([Val(@) EXCEPT
                        !.rootKey = calculateKey(Val(c.ck)).rootKey,
                        !.counter = @ + 1])],
            [c EXCEPT !.cipher = Some(calculateKey(Val(c.ck)).cipher)],
            "e_seal")

\* The ciphertext SendingRatchet.encrypt returns
SealedText(c, ident) ==
    AesEncrypt(MessageKeysOf(Val(c.cipher)).aesKey, c.arg,
               MessageKeysOf(Val(c.cipher)).iv,
               createMinimalAAD(c.counter, c.previousCounter))

\* encrypt, lines 338-355: update(), and the PreKeyMessage if this is the
\* first message; reading sendingChain.counter of a step without a sending
\* chain throws
EncSealed(r, c, ident) ==
    IF Len(r.items) = 0 /\ ~IsSome(r.heap[r.currentStep].receivingChain)
    THEN IF ~IsSome(r.heap[r.currentStep].sendingChain)
         THEN Reject(r, c, "TypeError")
         ELSE IF Val(r.heap[r.currentStep].sendingChain).counter = 1
         THEN Suspend(r, [c EXCEPT !.pre = Some(PreKeyMessage(r, ident))], "e_fill")
         ELSE Suspend(r, c, "e_fill")
    ELSE Suspend(r, c, "e_fill")

\* encrypt, lines 357-374: the signed message, returned after await sign
EncSign(r, c, ident) ==
    Fulfil(r, c,
           [pre |-> c.pre,
            signed |-> SignedMessage(r, ident,
                          [senderRatchetKey |-> r.currentRatchetKey,
                           counter |-> c.counter,
                           previousCounter |-> c.previousCounter,
                           cipherText |-> SealedText(c, ident)],
                          MessageKeysOf(Val(c.cipher)).hmacKey)])

\* The body of encrypt from where call c is to its next await
EncStep(r, c, ident) ==
    CASE c.pc = "queued" -> EncBegin(r, c)
      [] c.pc = "e_genkey" ->
           EncChain([r EXCEPT !.currentRatchetKey = Val(c.fresh)], c)
      [] c.pc = "e_derive" -> ChainHKDF(r, c, "e_hkdf")
      [] c.pc = "e_hkdf" ->
           ChainReturn(r, c, NewSendingChain(Val(c.keys)[2]), "e_chain")
      [] c.pc = "e_chain" ->
           EncSend([r EXCEPT !.heap[c.step].sendingChain = c.chain], c)
      [] c.pc = "e_click" -> EncClick(r, c)
      [] c.pc = "e_seal" -> EncSealed(r, c, ident)
      [] c.pc = "e_fill" -> EncSign(r, c, ident)


\* getKey's loop, while (this.counter <= counter), at the await of click
DecLoop(r, c) ==
    Suspend(r, [c EXCEPT !.ck = Some(Val(r.heap[c.step].receivingChain).rootKey)],
            "d_click")

\* The chain after a click that left the key of a skipped counter cached
Skipped(chain, cipher, t) ==
    [chain EXCEPT
       !.messageKeys = MapPut(@, chain.counter - 1, cipher),
       !.messageKeysCreationTime = MapPut(@, chain.counter - 1, t)]

\* click after calculateKey returned, with the chain as the click left it:
\* the loop goes on, or getKey returns the key
DecClicked(r, c, chain, counter, t) ==
    IF chain.counter - 1 < counter
    THEN DecLoop([r EXCEPT !.heap[c.step].receivingChain =
                     Some(Skipped(chain, calculateKey(Val(c.ck)).cipher, t))], c)
    ELSE Suspend([r EXCEPT !.heap[c.step].receivingChain =
                     Some(enforceMaxCacheSize(chain))],
                 [c EXCEPT !.cipher = Some(calculateKey(Val(c.ck)).cipher)],
                 "d_open")

\* receivingChain.decrypt up to the first await of getKey; chain is the
\* chain after cleanupExpiredKeys
DecKey(r, c, chain, counter, t) ==
    IF counter \in DOMAIN chain.messageKeys
    THEN Suspend([r EXCEPT !.heap[c.step].receivingChain =
                     Some([chain EXCEPT
                             !.messageKeys = MapRemove(@, counter),
                             !.messageKeysCreationTime = MapRemove(@, counter)])],
                 [c EXCEPT !.cipher = Some(chain.messageKeys[counter]),
                           !.age = t - chain.messageKeysCreationTime[counter]],
                 "d_open")
    ELSE IF counter < chain.counter
    THEN Reject([r EXCEPT !.heap[c.step].receivingChain = Some(chain)], c,
                "CounterTooOld")
    ELSE DecLoop([r EXCEPT !.heap[c.step].receivingChain = Some(chain)], c)

\* decrypt, lines 249-274: generateSkippedMessageKeys is awaited if the
\* message is ahead of the last one decrypted
DecGen(r, c, protocol, t) ==
    IF protocol.message.counter > r.heap[c.step].lastDecryptedCounter + 1
    THEN Suspend(r, c, "d_gen")
    ELSE DecKey(r, c, cleanupExpiredKeys(Val(r.heap[c.step].receivingChain), t),
                protocol.message.counter, t)

\* decrypt, lines 241-247: the receiving chain of the step
DecChain(r, c, protocol, t) ==
    IF IsSome(r.heap[c.step].receivingChain) THEN DecGen(r, c, protocol, t)
    ELSE ChainDerive(r, c, protocol.message.senderRatchetKey, "d_derive")

\* decrypt, lines 223-238: a key of the session-global cache
DecLookup(r, c, protocol, t, sk) ==
    IF IsSome(sk.key)
    THEN Suspend([r EXCEPT !.globalSkippedKeys = sk.globalSkippedKeys],
                 [c EXCEPT !.cipher = sk.key], "d_withkey")
    ELSE DecChain(r, c, protocol, t)

\* decrypt once the step of the message is c.step
DecAtStep(r, c, protocol, t) ==
    IF IsSome(r.heap[c.step].ratchetKeyId)
    THEN DecLookup(r, c, protocol, t,
             consumeSkippedMessageKey(r, Val(r.heap[c.step].ratchetKeyId),
                                      protocol.message.counter))
    ELSE DecChain(r, c, protocol, t)

\* decrypt, lines 203-220: the window check, getStep, a new current step
DecBegin(r, c, protocol, t) ==
    IF protocol.message.previousCounter < r.counter - r.maxSize
    THEN Reject(r, c, "OutsideRatchetWindow")
    ELSE IF IsSome(getStep(r, protocol.message.senderRatchetKey))
    THEN DecAtStep(r, [c EXCEPT !.step =
                          Val(getStep(r, protocol.message.senderRatchetKey))],
                   protocol, t)
    ELSE DecAtStep(DecryptNewStep(r, protocol.message.senderRatchetKey),
                   [c EXCEPT !.step = Len(r.heap) + 1], protocol, t)

\* receivingChain.decrypt after getKey returned, and decrypt, lines 277-285
DecOpen(r, c, protocol) ==
    IF ~AesDecryptOk(MessageKeysOf(Val(c.cipher)).aesKey,
                     protocol.message.cipherText,
                     MessageKeysOf(Val(c.cipher)).iv,
                     createMinimalAAD(protocol.message.counter,
                                      protocol.message.previousCounter))
    THEN Reject(r, c, "DecryptFailed")
    ELSE Suspend([r EXCEPT !.heap[c.step].lastDecryptedCounter =
                     Max2(@, protocol.message.counter)],
                 c, "d_verify")

\* decrypt, lines 285-291: after await protocol.verify
DecVerified(r, c, ident, protocol) ==
    IF ~MessageVerify(r, ident, protocol, MessageKeysOf(Val(c.cipher)).hmacKey)
    THEN Reject(r, c, "VerifyFailed")
    ELSE Fulfil(r, c, protocol.message.cipherText.pt)

\* decryptWithKey, the whole of it
DecWithKey(r, c, ident, protocol, d) ==
    IF d.ok THEN Fulfil(r, c, Val(d.plain)) ELSE Reject(r, c, d.err)

\* The body of decrypt from where call c is to its next await
DecStep(r, c, ident, protocol, t) ==
    CASE c.pc = "queued" -> DecBegin(r, c, protocol, t)
      [] c.pc = "d_derive" -> ChainHKDF(r, c, "d_hkdf")
      [] c.pc = "d_hkdf" ->
           ChainReturn(r, c, NewReceivingChain(Val(c.keys)[2]), "d_chain")
      [] c.pc = "d_chain" ->
           DecGen([r EXCEPT !.heap[c.step].receivingChain = c.chain], c,
                  protocol, t)
      [] c.pc = "d_gen" ->
           DecKey(r, c, cleanupExpiredKeys(Val(r.heap[c.step].receivingChain), t),
                  protocol.message.counter, t)
      [] c.pc = "d_click" ->
           DecClicked(r, c,
               [Val(r.heap[c.step].receivingChain) EXCEPT
                  !.rootKey = calculateKey(Val(c.ck)).rootKey,
                  !.counter = @ + 1],
               protocol.message.counter, t)
      [] c.pc = "d_open" -> DecOpen(r, c, protocol)
      [] c.pc = "d_verify" -> DecVerified(r, c, ident, protocol)
      [] c.pc = "d_withkey" ->
           DecWithKey(r, c, ident, protocol,
                      decryptWithKey(r, ident, Val(c.cipher), protocol))


MaxQueue == 3         \* calls invoked on the session

\* The session whose calls are queued, and its peer's messages
Subject == Bob

\* Bob's session and Alice's after Bob created his, sent one message, Alice
\* created hers from it, decrypted it and sent n messages back
AfterFirst(b) ==
    Encrypt(b, IdentityCreate(Bob, 1, 1), Plaintext(1), Key(Bob, "rk", 1))
Created ==
    Val(CreateFromBundle(IdentityCreate(Bob, 1, 1),
                         MakeBundle(IdentityCreate(Alice, 1, 1), 0, Some(0)),
                         DEFAULT_RATCHET_LIMITS, Key(Bob, "rk", 0)).ratchet)
Looked == RespLookup(IdentityCreate(Alice, 1, 1), Val(AfterFirst(Created).out))
Answering ==
    Decrypt(RespAuth(Looked.identity, Val(AfterFirst(Created).out),
                     DEFAULT_RATCHET_LIMITS, Val(Looked.signedPreKey),
                     Looked.preKey),
            Looked.identity, Val(AfterFirst(Created).out).signed, 0).ratchet

\* Alice's session and the messages she has sent after n more encrypts
RECURSIVE Replies(_)
Replies(n) ==
    IF n = 0 THEN [ratchet |-> Answering, sent |-> <<>>]
    ELSE With(Replies(n - 1), LAMBDA before :
         With(Encrypt(before.ratchet, Looked.identity, Plaintext(n + 1),
                      Key(Alice, "rk", before.ratchet.counter + 1)),
              LAMBDA e :
                  [ratchet |-> e.ratchet,
                   sent |-> Append(before.sent,
                                   [from |-> Alice, plain |-> Plaintext(n + 1),
                                    msg |-> Val(e.out)])]))

\* The subject's session when the calls begin, by the length of net: just
\* created, or after the exchange
Initially(n) == IF n = 0 THEN Created ELSE AfterFirst(Created).ratchet

InitQueue ==
    /\ now = 0
    /\ last = NoOp
    /\ hist = NoHistory
    /\ calls = <<>>
    /\ \E n \in 0..2 :
          IF n = 0
          THEN /\ identity = [p \in Parties |-> IdentityCreate(p, 1, 1)]
               /\ sess = [p \in Parties |-> IF p = Bob THEN Some(Created) ELSE None]
               /\ net = <<>>
          ELSE /\ identity = [p \in Parties |->
                                 IF p = Bob THEN IdentityCreate(Bob, 1, 1)
                                 ELSE Looked.identity]
               /\ sess = [p \in Parties |->
                             IF p = Bob THEN Some(AfterFirst(Created).ratchet)
                             ELSE Some(Replies(n).ratchet)]
               /\ net = <<[from |-> Bob, plain |-> Plaintext(1),
                           msg |-> Val(AfterFirst(Created).out)]>>
                        \o Replies(n).sent

\* A queuePromise that does not wait for the promise it chains to
PrevSettled_any(cs, c) == TRUE

\* A queuePromise that chains with prev.then(fn): fn runs only once prev has
\* fulfilled
PrevSettled_fulfilled(cs, c) ==
    IF IsSome(c.prev) THEN cs[Val(c.prev)].pc = "fulfilled" ELSE TRUE

\* prev.then(fn, fn): fn runs once prev has settled, fulfilled or rejected
PrevSettled(cs, c) == IF IsSome(c.prev) THEN Settled(cs[Val(c.prev)]) ELSE TRUE

\* The application calls encrypt or decrypt: queuePromise chains the body to
\* promises[kind] and makes the new promise promises[kind]
Invoke(kind, arg) ==
    /\ Len(calls) < MaxQueue
    /\ IsSome(sess[Subject])
    /\ kind = "decrypt" =>
          /\ arg \in 1..Len(net)
          /\ net[arg].from = Peer(Subject)
    /\ calls' = Append([k \in DOMAIN calls |->
                           IF calls[k].kind = kind
                           THEN [calls[k] EXCEPT !.registered = FALSE]
                           ELSE calls[k]],
                       NewCall(kind, arg, Promises(calls, kind)))
    /\ UNCHANGED <<identity, sess, net, now, last, hist>>

\* The body of call k runs from where it is to its next await, or to its end
Run(k) ==
    /\ k \in DOMAIN calls
    /\ ~Settled(calls[k])
    /\ calls[k].pc = "queued" => PrevSettled(calls, calls[k])
    /\ \E s \in {IF calls[k].kind = "encrypt"
                 THEN EncStep(Val(sess[Subject]), calls[k], identity[Subject])
                 ELSE DecStep(Val(sess[Subject]), calls[k], identity[Subject],
                              net[calls[k].arg].msg.signed, now)} :
          /\ sess' = [sess EXCEPT ![Subject] = Some(s.r)]
          /\ calls' = [calls EXCEPT ![k] = s.c]
    /\ UNCHANGED <<identity, net, now, last, hist>>

\* The callback queuePromise hung on the promise of call k: if the promise
\* is still promises[kind], promises[kind] becomes null
Clear(k) ==
    /\ k \in DOMAIN calls
    /\ calls[k].pc = "fulfilled"
    /\ ~calls[k].cleared
    /\ calls' = [calls EXCEPT ![k].cleared = TRUE, ![k].registered = FALSE]
    /\ UNCHANGED <<identity, sess, net, now, last, hist>>

NextQueue ==
    \/ Invoke("encrypt", Plaintext(10 + Len(calls)))
    \/ \E idx \in 2..3 : Invoke("decrypt", idx)
    \/ \E k \in 1..MaxQueue : Run(k)
    \/ \E k \in 1..MaxQueue : Clear(k)

SpecQueue == InitQueue /\ [][NextQueue]_vars

\* The calls of kind that are in their body: started and not settled
InBody(kind) ==
    { k \in DOMAIN calls :
        calls[k].kind = kind /\ calls[k].pc # "queued" /\ ~Settled(calls[k]) }

\* C16: the body of a call starts only after every earlier call of the same
\* direction has settled, so at most one encrypt and at most one decrypt is
\* in its body, and of two encrypts that advanced the same sending chain the
\* one invoked first got the lower counter
C16_OneAtATime ==
    /\ \A k1, k2 \in DOMAIN calls :
          (k1 < k2 /\ calls[k1].kind = calls[k2].kind)
          => /\ calls[k2].pc # "queued" => Settled(calls[k1])
             /\ (/\ calls[k1].kind = "encrypt"
                 /\ calls[k1].counter >= 0 /\ calls[k2].counter >= 0
                 /\ calls[k1].chainStep = calls[k2].chainStep)
                => calls[k1].counter < calls[k2].counter
    /\ Cardinality(InBody("encrypt")) <= 1
    /\ Cardinality(InBody("decrypt")) <= 1

\* C16 witness: three encrypts were invoked before the first had begun; the
\* first has returned, the second is in its body and the third waits
C16_Witness ==
    /\ Len(calls) = 3
    /\ \A k \in 1..3 : calls[k].kind = "encrypt"
    /\ calls[2].prev = Some(1) /\ calls[3].prev = Some(2)
    /\ calls[1].pc = "fulfilled"
    /\ calls[2].pc = "e_seal"
    /\ calls[3].pc = "queued"
    /\ calls[2].counter = calls[1].counter + 1


-----------------------------------------------------------------------------
(* An encrypt and a decrypt of one session in flight together *)

\* What call c does and returns when it runs alone, from its invocation to
\* its end, on session r
RunWhole(r, c) ==
    IF c.kind = "encrypt"
    THEN With(Encrypt(r, identity[Subject], c.arg,
                      Key(Subject, "rk", r.counter + 1)),
              LAMBDA e : [ratchet |-> e.ratchet, ok |-> e.ok, err |-> e.err,
                          out |-> e.out])
    ELSE With(Decrypt(r, identity[Subject], net[c.arg].msg.signed, now),
              LAMBDA d : [ratchet |-> d.ratchet, ok |-> d.ok, err |-> d.err,
                          out |-> d.plain])

\* Call c settled as the sequential run w did
SettledAs(c, w) ==
    /\ Settled(c)
    /\ (c.pc = "fulfilled") = w.ok
    /\ c.err = w.err
    /\ c.out = w.out

\* The session and the two results are those of call k1 run alone from the
\* initial session and then call k2 run alone
AsAfter(first, k1, k2) ==
    /\ SettledAs(calls[k1], first)
    /\ SettledAs(calls[k2], RunWhole(first.ratchet, calls[k2]))
    /\ Val(sess[Subject]) = RunWhole(first.ratchet, calls[k2]).ratchet

InOrder(k1, k2) ==
    AsAfter(RunWhole(Initially(Len(net)), calls[k1]), k1, k2)

\* Exactly one encrypt and one decrypt were invoked and both have settled
OneEach ==
    /\ Len(calls) = 2
    /\ calls[1].kind # calls[2].kind
    /\ Settled(calls[1]) /\ Settled(calls[2])

\* C17: when an encrypt and a decrypt of one session have run concurrently,
\* the session and the two results are those of running the two calls one
\* after the other in one of the two orders
C17_Serializable == OneEach => (InOrder(1, 2) \/ InOrder(2, 1))

\* A single call that has settled did what the call does when run alone
SingleCall ==
    (Len(calls) = 1 /\ Settled(calls[1]))
    => /\ SettledAs(calls[1], RunWhole(Initially(Len(net)), calls[1]))
       /\ Val(sess[Subject]) = RunWhole(Initially(Len(net)), calls[1]).ratchet


-----------------------------------------------------------------------------
(* The kind of message encrypt returns *)

\* The messages party p has sent, and the first of them
SentBy(p) == { idx \in DOMAIN net : net[idx].from = p }
IsFirstFrom(p, idx) == idx \in SentBy(p) /\ \A j \in SentBy(p) : idx <= j

\* The bundle the initiator created its session from
BundleUsed == MakeBundle(Published, 0, Some(0))

\* C18: of the messages the initiator's encrypt has returned, the first is
\* a PreKeyMessage carrying the initiator's IdentityProtocol, its current
\* ratchet key as baseKey and the ids of the pre-keys of the bundle it was
\* created from, and every later one is a bare MessageSigned
C18_InitiatorFirst ==
    \A idx \in SentBy(Bob) :
        IF IsFirstFrom(Bob, idx)
        THEN /\ IsSome(net[idx].msg.pre)
             /\ Val(net[idx].msg.pre).registrationId = identity[Bob].id
             /\ Val(net[idx].msg.pre).identity = IdentityProtocolFill(identity[Bob])
             /\ Val(net[idx].msg.pre).baseKey
                    = net[idx].msg.signed.message.senderRatchetKey
             /\ Val(net[idx].msg.pre).baseKey = Key(Bob, "rk", 0)
             /\ Val(net[idx].msg.pre).preKeyId = Some(Val(BundleUsed.preKey).id)
             /\ Val(net[idx].msg.pre).preKeySignedId = BundleUsed.preKeySigned.id
        ELSE ~IsSome(net[idx].msg.pre)

\* C18 witness: the initiator has just sent the first message of the
\* sending chain of its first rotation, after two messages of its first
\* sending chain
C18_Witness ==
    /\ last.op = "encrypt" /\ last.party = Bob /\ last.ok
    /\ Cardinality(SentBy(Bob)) = 3
    /\ net[last.idx].msg.signed.message.counter = 0
    /\ net[last.idx].msg.signed.message.senderRatchetKey = Key(Bob, "rk", 1)
    /\ ~IsSome(net[last.idx].msg.pre)
    /\ \E idx \in SentBy(Bob) : IsSome(net[idx].msg.pre)

\* C19 as stated: in each direction the first message is a PreKeyMessage
\* and the later ones are MessageSigned
C19_EachDirection ==
    \A p \in Parties : \A idx \in SentBy(p) :
        IsSome(net[idx].msg.pre) <=> IsFirstFrom(p, idx)

\* C19: the only PreKeyMessage of a conversation is the first message of
\* the initiator; every message of the responder, its first included, is a
\* bare MessageSigned
C19_InitiatorOnly ==
    \A idx \in DOMAIN net :
        IsSome(net[idx].msg.pre) <=> IsFirstFrom(Bob, idx)

\* C19 witness: the responder's first encrypt has just returned, and what
\* it returned is a bare MessageSigned
C19_Witness ==
    /\ last.op = "encrypt" /\ last.party = Alice /\ last.ok
    /\ IsFirstFrom(Alice, last.idx)
    /\ ~IsSome(net[last.idx].msg.pre)
    /\ Val(sess[Alice]).counter = 1


-----------------------------------------------------------------------------
(* The rotation scenario: Bob sends M0, Alice replies M1 and sends M2, Bob *)
(* replies M3, Alice sends M4; every message is delivered once, unmodified *)
(* and in order.                                                           *)

\* Who sent the messages of the scenario, the counter in the header of
\* each, and the earlier message of the same sender whose ratchet key it
\* repeats (same) or replaces (other), 0 for none
Rotation ==
    <<[from |-> Bob, counter |-> 0, same |-> 0, other |-> 0],
      [from |-> Alice, counter |-> 0, same |-> 0, other |-> 0],
      [from |-> Alice, counter |-> 1, same |-> 2, other |-> 0],
      [from |-> Bob, counter |-> 0, same |-> 0, other |-> 1],
      [from |-> Alice, counter |-> 0, same |-> 0, other |-> 3]>>

RatchetKeyOf(idx) == net[idx].msg.signed.message.senderRatchetKey

\* The first n messages sent are the first n of the scenario, and no
\* delivery so far was out of order, repeated or modified
RotationUpTo(n) ==
    /\ n \in 1..Len(Rotation)
    /\ Len(net) >= n
    /\ \A i \in 1..n :
          /\ net[i].from = Rotation[i].from
          /\ net[i].msg.signed.message.counter = Rotation[i].counter
          /\ Rotation[i].same # 0 => RatchetKeyOf(i) = RatchetKeyOf(Rotation[i].same)
          /\ Rotation[i].other # 0 => RatchetKeyOf(i) # RatchetKeyOf(Rotation[i].other)
    /\ hist.clean

\* The scenario is over: its five messages are the messages sent, and all
\* five were decrypted
RotationDone ==
    /\ Len(net) = Len(Rotation)
    /\ RotationUpTo(Len(Rotation))
    /\ hist.okd = 1..Len(Rotation)

\* This step is the decrypt of message idx of the scenario, and it created
\* a DH step for the sender's ratchet key and made it current
CreatesStep(idx) ==
    (/\ hist.seen # hist'.seen
     /\ last'.op = "decrypt" /\ last'.idx = idx
     /\ RotationUpTo(idx)')
    => /\ last'.ok
       /\ \A p \in Parties : p = last'.party =>
             /\ Len(Val(sess'[p]).heap) = Len(Val(sess[p]).heap) + 1
             /\ ~IsSome(getStep(Val(sess[p]), RatchetKeyOf(idx)))
             /\ getStep(Val(sess'[p]), RatchetKeyOf(idx))
                    = Some(Val(sess'[p]).currentStep)

\* C20 as stated: decrypting M3 and decrypting M4 each create a DH step,
\* and after the scenario session.counter is 2 on both sessions
C20_CounterTwo ==
    /\ [][CreatesStep(4) /\ CreatesStep(5)]_vars
    /\ [](RotationDone => /\ Val(sess[Alice]).counter = 2
                          /\ Val(sess[Bob]).counter = 2)

\* C20: decrypting M3 and decrypting M4 each create a DH step; after the
\* scenario session.counter is 2 on the responder, which rotated before M1
\* and before M4, and 1 on the initiator, which rotated before M3
C20_Rotations ==
    /\ [][CreatesStep(4) /\ CreatesStep(5)]_vars
    /\ [](RotationDone => /\ Val(sess[Alice]).counter = 2
                          /\ Val(sess[Bob]).counter = 1)

\* C20 witness: the scenario is over, Bob has just decrypted M4 into a step
\* of its own
C20_Witness ==
    /\ RotationDone
    /\ last.op = "decrypt" /\ last.idx = 5 /\ last.party = Bob /\ last.ok
    /\ getStep(Val(sess[Bob]), RatchetKeyOf(5)) = Some(Val(sess[Bob]).currentStep)
    /\ getStep(Val(sess[Alice]), RatchetKeyOf(4)) = Some(Val(sess[Alice]).currentStep)


-----------------------------------------------------------------------------
(* The update event *)

-----------------------------------------------------------------------------
(* Persistence: toJSON and fromJSON *)

\* DHRatchetStepEnhanced.toJSON, with the chains' toJSON
StepToJSON(step) ==
    [remoteRatchetKey |-> step.remoteRatchetKey,
     ratchetKeyId |-> IF IsSome(step.remoteRatchetKey)
                      THEN Some(Thumbprint(Val(step.remoteRatchetKey)))
                      ELSE None,
     sendingChain |-> IF IsSome(step.sendingChain)
                      THEN Some([counter |-> Val(step.sendingChain).counter,
                                 rootKey |-> Val(step.sendingChain).rootKey])
                      ELSE None,
     receivingChain |-> IF IsSome(step.receivingChain)
                        THEN Some([counter |-> Val(step.receivingChain).counter,
                                   rootKey |-> Val(step.receivingChain).rootKey,
                                   messageKeys |-> Val(step.receivingChain).messageKeys])
                        ELSE None,
     lastDecryptedCounter |-> step.lastDecryptedCounter,
     skippedMessageKeys |-> step.skippedMessageKeys]

\* DHRatchetStepEnhanced.fromJSON at time t, with the chains' fromJSON:
\* obj.lastDecryptedCounter || -1, and Date.now() for every cached key
StepFromJSON(obj, t) ==
    [remoteRatchetKey |-> obj.remoteRatchetKey,
     ratchetKeyId |-> IF IsSome(obj.remoteRatchetKey)
                      THEN IF IsSome(obj.ratchetKeyId) THEN obj.ratchetKeyId
                           ELSE Some(Thumbprint(Val(obj.remoteRatchetKey)))
                      ELSE None,
     sendingChain |-> obj.sendingChain,
     receivingChain |->
         IF IsSome(obj.receivingChain)
         THEN Some([counter |-> Val(obj.receivingChain).counter,
                    rootKey |-> Val(obj.receivingChain).rootKey,
                    messageKeys |-> Val(obj.receivingChain).messageKeys,
                    messageKeysCreationTime |->
                        [c \in DOMAIN Val(obj.receivingChain).messageKeys |-> t]])
         ELSE None,
     lastDecryptedCounter |-> IF obj.lastDecryptedCounter = 0 THEN -1
                              ELSE obj.lastDecryptedCounter,
     skippedMessageKeys |-> obj.skippedMessageKeys]

\* AsymmetricRatchet.toJSON: steps is Stack.toJSON, the items of the ring
toJSON(r) ==
    [counter |-> r.counter,
     ratchetKey |-> r.currentRatchetKey,
     remoteIdentity |-> Thumbprint(r.remoteIdentity.signingKey),
     rootKey |-> r.rootKey,
     steps |-> [i \in DOMAIN r.items |-> StepToJSON(r.heap[r.items[i]])]]

\* The loop of AsymmetricRatchet.fromJSON from step i of steps on:
\* this.currentStep = fromJSON(step); this.steps.push(this.currentStep)
RECURSIVE RestoreSteps(_, _, _, _)
RestoreSteps(r, steps, i, t) ==
    IF i > Len(steps) THEN r
    ELSE RestoreSteps(
             StepsPush([r EXCEPT !.heap = Append(@, StepFromJSON(steps[i], t)),
                                 !.currentStep = Len(r.heap) + 1],
                       Len(r.heap) + 1),
             steps, i + 1, t)

\* A fromJSON that restores nothing of the ring
fromJSON_blank(ident, remote, obj, t) ==
    [NewRatchet(ident, DEFAULT_RATCHET_LIMITS, obj.rootKey, obj.ratchetKey,
                NewStep, remote, None, None)
     EXCEPT !.counter = obj.counter]

\* static AsymmetricRatchet.fromJSON(identity, remote, obj) at time t: a
\* session constructed without options, then fromJSON(obj)
fromJSON(ident, remote, obj, t) ==
    RestoreSteps(
        [NewRatchet(ident, DEFAULT_RATCHET_LIMITS, obj.rootKey, obj.ratchetKey,
                    NewStep, remote, None, None)
         EXCEPT !.counter = obj.counter],
        obj.steps, 1, t)

MaxRestore == 1       \* sessions restored from their JSON; calls lists them

\* What fromJSON makes of the toJSON of the session of party p, now
Restored(p) ==
    fromJSON(identity[p], Val(sess[p]).remoteIdentity, toJSON(Val(sess[p])), now)

\* The application of p replaces its session by one restored from the
\* JSON of the session
Restore(p) ==
    /\ IsSome(sess[p])
    /\ Len(calls) < MaxRestore
    /\ sess' = [sess EXCEPT ![p] = Some(Restored(p))]
    /\ last' = [NoOp EXCEPT !.op = "restore", !.party = p]
    /\ calls' = Append(calls, p)
    /\ UNCHANGED <<identity, net, now, hist>>

NextRestore ==
    \/ Next
    \/ \E p \in Parties : Restore(p)

SpecRestore == Init /\ [][NextRestore]_vars

\* The step ring of session r: the steps its items refer to
Ring(r) == [i \in DOMAIN r.items |-> r.heap[r.items[i]]]

\* What a step holds besides the times its cached keys were stored at
StepState(step) ==
    [remoteRatchetKey |-> step.remoteRatchetKey,
     sendingChain |-> step.sendingChain,
     receiving |-> IF IsSome(step.receivingChain)
                   THEN Some(<<Val(step.receivingChain).counter,
                               Val(step.receivingChain).rootKey,
                               Val(step.receivingChain).messageKeys>>)
                   ELSE None,
     lastDecryptedCounter |-> step.lastDecryptedCounter,
     skippedMessageKeys |-> step.skippedMessageKeys]

\* Sessions r and q have the same DH counter, ratchet key pair, root key,
\* current step and step ring
SameState(r, q) ==
    /\ r.counter = q.counter
    /\ r.currentRatchetKey = q.currentRatchetKey
    /\ r.rootKey = q.rootKey
    /\ StepState(r.heap[r.currentStep]) = StepState(q.heap[q.currentStep])
    /\ Len(r.items) = Len(q.items)
    /\ \A i \in DOMAIN r.items : StepState(Ring(r)[i]) = StepState(Ring(q)[i])

\* Sessions r and q of party p return the same to the next encrypt
SameEncrypt(p, r, q) ==
    With(Encrypt(r, identity[p], Plaintext(0), Key(p, "rk", r.counter + 1)),
         LAMBDA a :
    With(Encrypt(q, identity[p], Plaintext(0), Key(p, "rk", q.counter + 1)),
         LAMBDA b : a.ok = b.ok /\ a.err = b.err /\ a.out = b.out))

\* C22: the session restored from the JSON of a session has the same DH
\* counter, ratchet key pair, root key, current step and step ring as the
\* session, and returns the same to the next encrypt
C22_RoundTrip ==
    \A p \in Parties : IsSome(sess[p]) =>
        /\ SameState(Val(sess[p]), Restored(p))
        /\ SameEncrypt(p, Val(sess[p]), Restored(p))

\* ---------------------------------------------------------------------------
\* Wire codec (protocol/serialization.ts, protocol/converter.ts).
\* A byte sequence is a sequence over 0..255.  A protocol record is a function
\* from its declared field names to options (undefined = None).  A public key
\* is [alg, raw]; a Date is its millisecond count, InvalidDate for NaN.
\* ---------------------------------------------------------------------------

KEY_BYTES == 32

InvalidDate == 0 - 1

\* the largest number the fields of the sample records hold (a uint32 of the
\* code reaches 2^32 - 1; the four bytes are computed the same way)
MaxNumber == 127 * 16777216 + 16777215

LE32_byte(n) == << n % 256, 0, 0, 0 >>

\* DataView.setUint32(0, n, true), for n in 0..MaxNumber
LE32(n) ==
    << n % 256, (n \div 256) % 256, (n \div 65536) % 256, (n \div 16777216) % 256 >>

\* DataView.getUint32(offset, true); offset counts from 0
getUint32(data, offset) ==
    data[offset + 1] + 256 * data[offset + 2]
        + 65536 * data[offset + 3] + 16777216 * data[offset + 4]

\* ArrayBuffer.slice(from, to); offsets count from 0
Slice(data, from, to) == SubSeq(data, from + 1, to)

\* toISOString / new Date(text): the text of a date is its millisecond count
\* in two decimal digits; any other text parses to an invalid date
DateText(d) == << 48 + (d \div 10), 48 + (d % 10) >>

DateParse(text) ==
    IF Len(text) = 2 /\ \A i \in 1..2 : text[i] \in 48..57
    THEN (text[1] - 48) * 10 + (text[2] - 48)
    ELSE InvalidDate

PublicKey(alg, tag) == [alg |-> alg, raw |-> [i \in 1..KEY_BYTES |-> tag]]

\* one entry per @ProtobufProperty; conv names the converter, parser the
\* nested record type, type the declared primitive type ("" when absent)
Prop(name, id, type, conv, parser, required, defaultValue) ==
    [name |-> name, id |-> id, type |-> type, conv |-> conv, parser |-> parser,
     required |-> required, defaultValue |-> defaultValue]

BaseProps == << Prop("version", 0, "uint32", "", "", FALSE, Some(1)) >>

PreKeyProps ==
    << Prop("id", 1, "uint32", "", "", TRUE, None),
       Prop("key", 2, "", "X25519", "", TRUE, None) >>

RecordTypes ==
    {"Identity", "PreKey", "PreKeySigned", "PreKeyBundle", "Message",
     "MessageSigned", "PreKeyMessage"}

\* getAllMetadata: the properties the class declares, then those of its
\* parents up the prototype chain
Declared(type) ==
    CASE type = "Identity" ->
           << Prop("signingKey", 1, "", "Ed25519", "", FALSE, None),
              Prop("exchangeKey", 2, "", "X25519", "", FALSE, None),
              Prop("signature", 3, "", "", "", FALSE, None),
              Prop("createdAt", 4, "", "Date", "", FALSE, None) >> \o BaseProps
      [] type = "PreKey" -> PreKeyProps \o BaseProps
      [] type = "PreKeySigned" ->
           << Prop("signature", 3, "", "ArrayBuffer", "", TRUE, None) >>
              \o PreKeyProps \o BaseProps
      [] type = "PreKeyBundle" ->
           << Prop("registrationId", 1, "uint32", "", "", TRUE, None),
              Prop("identity", 2, "", "", "Identity", TRUE, None),
              Prop("preKey", 3, "", "", "PreKey", FALSE, None),
              Prop("preKeySigned", 4, "", "", "PreKeySigned", TRUE, None) >>
              \o BaseProps
      [] type = "Message" ->
           << Prop("senderRatchetKey", 1, "", "X25519", "", TRUE, None),
              Prop("counter", 2, "uint32", "", "", TRUE, None),
              Prop("previousCounter", 3, "uint32", "", "", TRUE, None),
              Prop("cipherText", 4, "", "ArrayBuffer", "", TRUE, None) >>
              \o BaseProps
      [] type = "MessageSigned" ->
           << Prop("senderKey", 1, "", "Ed25519", "", TRUE, None),
              Prop("message", 2, "", "", "Message", TRUE, None),
              Prop("signature", 3, "", "", "", TRUE, None) >> \o BaseProps
      [] type = "PreKeyMessage" ->
           << Prop("registrationId", 1, "uint32", "", "", TRUE, None),
              Prop("preKeyId", 2, "uint32", "", "", FALSE, None),
              Prop("preKeySignedId", 3, "uint32", "", "", TRUE, None),
              Prop("baseKey", 4, "", "X25519", "", TRUE, None),
              Prop("identity", 5, "", "", "Identity", TRUE, None),
              Prop("signedMessage", 6, "", "", "MessageSigned", TRUE, None) >>
              \o BaseProps

\* The property of smallest id among props
FirstById(props) ==
    props[CHOOSE i \in 1..Len(props) : \A j \in 1..Len(props) : props[i].id <= props[j].id]

\* Array.sort((a, b) => a[1].id - b[1].id); the ids of a class chain differ
RECURSIVE SortById(_)
SortById(props) ==
    IF props = <<>> THEN <<>>
    ELSE << FirstById(props) >>
           \o SortById(SelectSeq(props, LAMBDA d : d.id # FirstById(props).id))

\* Properties left in the order of their declaration
Metadata_unsorted(type) == Declared(type)

\* sortedEntries of exportProto: the properties in the order of their ids.
\* importProto looks a property up by its id, whatever the order.
SortedEntries == [type \in RecordTypes |-> SortById(Declared(type))]

Metadata(type) == SortedEntries[type]

\* new T(): every declared field undefined
NewProto(type) ==
    [n \in { Metadata(type)[i].name : i \in 1..Len(Metadata(type)) } |-> None]

Thrown(err) == [ok |-> FALSE, err |-> err, bytes |-> <<>>, obj |-> None]

Bytes(b) == [ok |-> TRUE, err |-> "", bytes |-> b, obj |-> None]

\* converter.set
ConverterSet(conv, value) ==
    CASE conv \in {"Ed25519", "X25519"} -> value.raw
      [] conv = "Date" -> DateText(value)
      [] conv = "ArrayBuffer" -> value

\* converter.get; None when it throws
ConverterGet(conv, bytes) ==
    CASE conv \in {"Ed25519", "X25519"} ->
           IF Len(bytes) # KEY_BYTES THEN None
           ELSE Some([alg |-> conv, raw |-> bytes])
      [] conv = "Date" -> Some(DateParse(bytes))
      [] conv = "ArrayBuffer" -> Some(bytes)

RECURSIVE exportProto(_, _)
RECURSIVE ExportFrom(_, _, _)

\* the serialized value of one defined property (lines 104-149)
SerializeValue(d, value) ==
    IF d.conv # "" THEN Bytes(ConverterSet(d.conv, value))
    ELSE IF d.parser # "" THEN exportProto(d.parser, value)
    ELSE IF d.type = "uint32" THEN Bytes(LE32(value))
    ELSE Bytes(value)

\* field id, length prefix, value (lines 97-100, 151-156)
Chunk(d, serialized) == LE32(d.id) \o LE32(Len(serialized)) \o serialized

ExportRest(type, x, i, chunk, rest) ==
    IF ~rest.ok THEN rest ELSE Bytes(chunk \o rest.bytes)

ExportValue(type, x, i, d, serialized) ==
    IF ~serialized.ok THEN Thrown("serialize")
    ELSE ExportRest(type, x, i, Chunk(d, serialized.bytes), ExportFrom(type, x, i + 1))

\* the loop of exportProto from the i-th property on (lines 85-162)
ExportFrom(type, x, i) ==
    IF i > Len(Metadata(type)) THEN Bytes(<<>>)
    ELSE IF ~IsSome(x[Metadata(type)[i].name])
         THEN IF Metadata(type)[i].required THEN Thrown("required undefined")
              ELSE ExportFrom(type, x, i + 1)
         ELSE ExportValue(type, x, i, Metadata(type)[i],
                          SerializeValue(Metadata(type)[i], Val(x[Metadata(type)[i].name])))

exportProto(type, x) == ExportFrom(type, x, 1)

\* importProto rejects, leaving the instance as far as it was filled
Rejected(err, obj) == [ok |-> FALSE, err |-> err, bytes |-> <<>>, obj |-> Some(obj)]

Resolved(obj) == [ok |-> TRUE, err |-> "", bytes |-> <<>>, obj |-> Some(obj)]

\* the position in Metadata(type) of the property with this id, 0 if none
\* (lines 207-216)
Target(type, fieldId) ==
    IF \E i \in 1..Len(Metadata(type)) : Metadata(type)[i].id = fieldId
    THEN CHOOSE i \in 1..Len(Metadata(type)) : Metadata(type)[i].id = fieldId
    ELSE 0

RECURSIVE importProto(_, _)
RECURSIVE ImportFrom(_, _, _, _, _)

\* deserializeUint32
deserializeUint32(buffer) ==
    IF Len(buffer) # 4 THEN None ELSE Some(getUint32(buffer, 0))

Nested(res) == IF res.ok THEN res.obj ELSE None

\* the value of one property read from its bytes, None when reading throws
\* (lines 229-268)
DeserializeValue(d, valueBuffer) ==
    IF d.conv # "" THEN ConverterGet(d.conv, valueBuffer)
    ELSE IF d.parser # "" THEN Nested(importProto(d.parser, valueBuffer))
    ELSE IF d.type = "uint32" THEN deserializeUint32(valueBuffer)
    ELSE Some(valueBuffer)

RequiredCheck_none(type, obj, seen) == Resolved(obj)

\* lines 279-290
RequiredCheck(type, obj, seen) ==
    IF \E i \in 1..Len(Metadata(type)) :
          /\ Metadata(type)[i].required
          /\ Metadata(type)[i].name \notin seen
          /\ ~IsSome(Metadata(type)[i].defaultValue)
    THEN Rejected("required not found", obj)
    ELSE Resolved([n \in DOMAIN obj |->
            IF \E i \in 1..Len(Metadata(type)) :
                  /\ Metadata(type)[i].name = n
                  /\ Metadata(type)[i].required
                  /\ n \notin seen
            THEN (CHOOSE d \in { Metadata(type)[i] : i \in 1..Len(Metadata(type)) } :
                      d.name = n).defaultValue
            ELSE obj[n]])

ImportValue(type, data, next, obj, seen, d, value) ==
    IF ~IsSome(value) THEN Rejected("deserialize", obj)
    ELSE ImportFrom(type, data, next, [obj EXCEPT ![d.name] = value],
                    seen \cup {d.name})

ImportField(type, data, offset, obj, seen, fieldId, length) ==
    IF offset + 8 + length > Len(data) THEN Rejected("length exceeds data", obj)
    ELSE IF Target(type, fieldId) = 0
         THEN ImportFrom(type, data, offset + 8 + length, obj, seen)
         ELSE ImportValue(type, data, offset + 8 + length, obj, seen,
                          Metadata(type)[Target(type, fieldId)],
                          DeserializeValue(Metadata(type)[Target(type, fieldId)],
                                           Slice(data, offset + 8, offset + 8 + length)))

\* the loop of importProto from this offset on (lines 183-277), then the
\* check for required properties
ImportFrom(type, data, offset, obj, seen) ==
    IF offset >= Len(data) THEN RequiredCheck(type, obj, seen)
    ELSE IF offset + 8 > Len(data) THEN Rejected("field header", obj)
    ELSE ImportField(type, data, offset, obj, seen,
                     getUint32(data, offset), getUint32(data, offset + 4))

importProto(type, data) == ImportFrom(type, data, 0, NewProto(type), {})

\* --- valid records, and the byte sequences decoded ---------------------------

Opt(S) == {None} \cup { Some(v) : v \in S }

BigField == 300

Numbers == {0, 1, BigField, MaxNumber}

Buffers == {<<>>, <<7, 9>>}

Identities ==
    [version : Opt({1}), signingKey : Opt({PublicKey("Ed25519", 1)}),
     exchangeKey : Opt({PublicKey("X25519", 2)}), signature : Opt({<<7, 9>>}),
     createdAt : Opt({42})]

SignedIdentity ==
    [version |-> None, signingKey |-> Some(PublicKey("Ed25519", 1)),
     exchangeKey |-> Some(PublicKey("X25519", 2)), signature |-> Some(<<7, 9>>),
     createdAt |-> Some(42)]

PreKeys ==
    [version : Opt({1}), id : Opt(Numbers),
     key : Opt({PublicKey("X25519", 3), PublicKey("X25519", 200)})]

PreKeysSigned ==
    [version : {None}, id : Opt({0, BigField}), key : Opt({PublicKey("X25519", 4)}),
     signature : Opt(Buffers)]

Messages ==
    [version : Opt({1}), senderRatchetKey : Opt({PublicKey("X25519", 5)}),
     counter : Opt(Numbers), previousCounter : Opt({0, 1}), cipherText : Opt(Buffers)]

InnerMessages ==
    { m \in Messages : m.version = None /\ m.counter \in {Some(0), Some(BigField)}
                       /\ m.previousCounter = Some(1) /\ m.cipherText = Some(<<7, 9>>) }

MessagesSigned ==
    [version : {None}, senderKey : Opt({PublicKey("Ed25519", 6)}),
     message : Opt(InnerMessages), signature : Opt(Buffers)]

PreKeyMessages ==
    [version : {None}, registrationId : Opt({1, BigField}), preKeyId : Opt({0, BigField}),
     preKeySignedId : Opt({1}), baseKey : Opt({PublicKey("X25519", 8)}),
     identity : Opt({SignedIdentity, NewProto("Identity")}),
     signedMessage : Opt({ s \in MessagesSigned : s.signature = Some(<<7, 9>>) })]

PreKeyBundles ==
    [version : {None}, registrationId : Opt({1, BigField}),
     identity : Opt({SignedIdentity, NewProto("Identity")}),
     preKey : Opt({ k \in PreKeys : k.version = None /\ k.id = Some(1) }),
     preKeySigned : Opt({ k \in PreKeysSigned : k.id = Some(BigField) })]

Records(type) ==
    CASE type = "Identity" -> Identities
      [] type = "PreKey" -> PreKeys
      [] type = "PreKeySigned" -> PreKeysSigned
      [] type = "PreKeyBundle" -> PreKeyBundles
      [] type = "Message" -> Messages
      [] type = "MessageSigned" -> MessagesSigned
      [] type = "PreKeyMessage" -> PreKeyMessages

RECURSIVE Complete(_, _)

\* every property declared required is defined, in the record and in the
\* records nested in it
Complete(type, x) ==
    \A i \in 1..Len(Metadata(type)) :
        /\ Metadata(type)[i].required => IsSome(x[Metadata(type)[i].name])
        /\ (Metadata(type)[i].parser # "" /\ IsSome(x[Metadata(type)[i].name]))
              => Complete(Metadata(type)[i].parser, Val(x[Metadata(type)[i].name]))

ValidRecords(type) == { x \in Records(type) : Complete(type, x) }

\* the offset at which the chunk of the i-th property starts in the encoding
ChunkStart(type, x, i) ==
    Len(exportProto(type, x).bytes) - Len(ExportFrom(type, x, i).bytes)

NewJob(type, x) ==
    [type |-> type, x |-> x, pc |-> "new", data |-> <<>>, cut |-> 0 - 1,
     dropped |-> 0, order |-> "", ok |-> TRUE, err |-> "", out |-> None,
     again |-> <<>>]

InitCodec ==
    /\ identity = [p \in Parties |-> IdentityCreate(p, 1, 1)]
    /\ sess = [p \in Parties |-> None]
    /\ net = <<>>
    /\ now = 0
    /\ last = NoOp
    /\ hist = NoHistory
    /\ \E type \in RecordTypes : \E x \in ValidRecords(type) :
          calls = << NewJob(type, x) >>

\* bytes = await x.exportProto()
ExportRecord ==
    /\ calls[1].pc = "new"
    /\ \E res \in {exportProto(calls[1].type, calls[1].x)} :
          calls' = << [calls[1] EXCEPT !.pc = IF res.ok THEN "exported" ELSE "failed",
                                       !.data = res.bytes, !.ok = res.ok,
                                       !.err = res.err] >>
    /\ UNCHANGED <<identity, sess, net, now, last, hist>>

\* the bytes lose their tail
Truncate(n) ==
    /\ calls[1].pc = "exported"
    /\ n < Len(calls[1].data)
    /\ calls' = << [calls[1] EXCEPT !.pc = "damaged", !.cut = n,
                                    !.data = SubSeq(calls[1].data, 1, n)] >>
    /\ UNCHANGED <<identity, sess, net, now, last, hist>>

\* the bytes lose the chunk of the i-th property
DropField(i) ==
    /\ calls[1].pc = "exported"
    /\ IsSome(calls[1].x[Metadata(calls[1].type)[i].name])
    /\ calls' = << [calls[1] EXCEPT !.pc = "damaged", !.dropped = i,
          !.data = SubSeq(calls[1].data, 1, ChunkStart(calls[1].type, calls[1].x, i))
                   \o SubSeq(calls[1].data,
                             ChunkStart(calls[1].type, calls[1].x, i + 1) + 1,
                             Len(calls[1].data))] >>
    /\ UNCHANGED <<identity, sess, net, now, last, hist>>

UNKNOWN_FIELD == 99

\* A chunk whose field id no record declares
UnknownChunk == LE32(UNKNOWN_FIELD) \o LE32(1) \o <<5>>

\* The chunks of the encoding data of record x from the i-th property on,
\* last chunk first
RECURSIVE Backwards(_, _, _, _)
Backwards(type, x, data, i) ==
    IF i > Len(Metadata(type)) THEN <<>>
    ELSE Backwards(type, x, data, i + 1)
           \o SubSeq(data, ChunkStart(type, x, i) + 1, ChunkStart(type, x, i + 1))

Orders == {"reversed", "unknown", "both"}

\* The bytes as another encoder could have written them: the chunks last
\* to first, a chunk of unknown field id put in front, or both
Reorder(order) ==
    /\ calls[1].pc = "exported"
    /\ calls' = << [calls[1] EXCEPT !.pc = "reordered", !.order = order,
          !.data = CASE order = "reversed" ->
                          Backwards(calls[1].type, calls[1].x, calls[1].data, 1)
                     [] order = "unknown" -> UnknownChunk \o calls[1].data
                     [] order = "both" ->
                          Backwards(calls[1].type, calls[1].x, calls[1].data, 2)
                            \o UnknownChunk
                            \o SubSeq(calls[1].data, 1,
                                      ChunkStart(calls[1].type, calls[1].x, 2))] >>
    /\ UNCHANGED <<identity, sess, net, now, last, hist>>

\* again = await y.exportProto(), y the record an import resolved with
ExportAgain ==
    /\ calls[1].pc = "imported"
    /\ calls[1].ok
    /\ \E res \in {exportProto(calls[1].type, Val(calls[1].out))} :
          calls' = << [calls[1] EXCEPT !.pc = IF res.ok THEN "again" ELSE "failed",
                                       !.again = res.bytes, !.ok = res.ok,
                                       !.err = res.err] >>
    /\ UNCHANGED <<identity, sess, net, now, last, hist>>

\* y = new T(); await y.importProto(bytes)
ImportRecord ==
    /\ calls[1].pc \in {"exported", "damaged", "reordered"}
    /\ \E res \in {importProto(calls[1].type, calls[1].data)} :
          calls' = << [calls[1] EXCEPT !.pc = "imported", !.ok = res.ok,
                                       !.err = res.err, !.out = res.obj] >>
    /\ UNCHANGED <<identity, sess, net, now, last, hist>>

NextCodec ==
    \/ ExportRecord
    \/ \E n \in 0..(Len(calls[1].data) - 1) : Truncate(n)
    \/ \E i \in 1..Len(Metadata(calls[1].type)) : DropField(i)
    \/ \E order \in Orders : Reorder(order)
    \/ ImportRecord
    \/ ExportAgain

SpecCodec == InitCodec /\ [][NextCodec]_vars

\* C23: decoding the encoding of a valid record of any of the seven types
\* succeeds and yields a record whose declared fields equal the original's.
C23_RoundTrip ==
    (calls[1].pc = "imported" /\ calls[1].cut < 0 /\ calls[1].dropped = 0)
        => (calls[1].ok /\ calls[1].out = Some(calls[1].x))

C23_Witness ==
    /\ calls[1].pc = "imported" /\ calls[1].cut < 0 /\ calls[1].dropped = 0
    /\ calls[1].type = "PreKeyMessage"
    /\ calls[1].x.preKeyId = Some(0)
    /\ calls[1].x.registrationId = Some(BigField)
    /\ calls[1].x.identity = Some(SignedIdentity)
    /\ calls[1].out = Some(calls[1].x)

\* the i-th property is defined in the record whose bytes were cut at n, and
\* the cut falls d bytes into its chunk for some d in lo..hi
CutInChunk(job, lo, hi) ==
    \E i \in 1..Len(Metadata(job.type)) :
        /\ IsSome(job.x[Metadata(job.type)[i].name])
        /\ job.cut - ChunkStart(job.type, job.x, i) \in lo..hi
        /\ job.cut < ChunkStart(job.type, job.x, i + 1)

\* C24: decoding fails when the chunk of a property declared required (and
\* without default) is absent, when the bytes end inside a field header, and
\* when they end inside a field value (declared length beyond the remaining
\* bytes); a decode that succeeds yields a record with every required property
\* defined, so no partly decoded record passes as valid.
C24_DecodeFails ==
    calls[1].pc = "imported" =>
        /\ (/\ calls[1].dropped > 0
            /\ Metadata(calls[1].type)[calls[1].dropped].required
            /\ ~IsSome(Metadata(calls[1].type)[calls[1].dropped].defaultValue))
              => (~calls[1].ok /\ calls[1].err = "required not found")
        /\ (calls[1].cut >= 0 /\ CutInChunk(calls[1], 1, 7))
              => (~calls[1].ok /\ calls[1].err = "field header")
        /\ (calls[1].cut >= 0 /\ CutInChunk(calls[1], 8, Len(calls[1].data)))
              => (~calls[1].ok /\ calls[1].err = "length exceeds data")
        /\ calls[1].ok => Complete(calls[1].type, Val(calls[1].out))

C24_Witness ==
    /\ calls[1].pc = "imported"
    /\ calls[1].type = "PreKeyBundle"
    /\ calls[1].cut >= 0 /\ CutInChunk(calls[1], 8, Len(calls[1].data))
    /\ ~calls[1].ok
    /\ IsSome(Val(calls[1].out).registrationId)
    /\ IsSome(Val(calls[1].out).identity)
    /\ ~IsSome(Val(calls[1].out).preKeySigned)

C24_DroppedWitness ==
    /\ calls[1].pc = "imported" /\ calls[1].dropped > 0 /\ ~calls[1].ok
    /\ calls[1].err = "required not found"

C24_HeaderWitness ==
    /\ calls[1].pc = "imported" /\ calls[1].cut >= 0 /\ ~calls[1].ok
    /\ calls[1].err = "field header"

-----------------------------------------------------------------------------
(* Skipped-key statistics *)

\* DHRatchetStepStackEnhanced.getSkippedKeyStats, what
\* AsymmetricRatchet.getSkippedMessageStats returns
getSkippedKeyStats(r) ==
    [totalSkippedKeys |-> Cardinality(DOMAIN r.globalSkippedKeys),
     ratchetSteps |-> Len(r.items),
     ratchetKeyIds |-> Cardinality(DOMAIN r.ratchetKeyLookup),
     limits |-> r.limits]

\* The (step, counter) pairs session r holds a message key for without
\* having decrypted the message: the keys cached by the receiving chains,
\* those of the steps' own tables and those of the session-global cache
HeldSkipped(r) ==
    UNION { { <<"chain", i, c>> : c \in DOMAIN Val(r.heap[i].receivingChain).messageKeys }
              \cup { <<"step", i, c>> : c \in DOMAIN r.heap[i].skippedMessageKeys }
            : i \in ReceivingSteps(r) }
      \cup { <<"global", x>> : x \in DOMAIN r.globalSkippedKeys }

\* C25: in every state the totalSkippedKeys statistic of a session equals the
\* number of message keys it holds for skipped counters across its DH steps
\* (so it rises when a decrypt jumps ahead and falls back as the late
\* messages are decrypted).
C25_TotalSkippedKeys ==
    \A p \in Parties : IsSome(sess[p]) =>
        getSkippedKeyStats(Val(sess[p])).totalSkippedKeys
            = Cardinality(HeldSkipped(Val(sess[p])))

\* The statistic is 0 in every state
C25_AlwaysZero ==
    \A p \in Parties : IsSome(sess[p]) =>
        getSkippedKeyStats(Val(sess[p])).totalSkippedKeys = 0

-----------------------------------------------------------------------------
(* The rotation rule of encrypt *)

\* The current step of session r has received and not yet sent
Closing(r) ==
    /\ IsSome(r.heap[r.currentStep].receivingChain)
    /\ ~IsSome(r.heap[r.currentStep].sendingChain)

\* This step is an encrypt of party p
EncryptBy(p) ==
    /\ IsSome(sess[p])
    /\ last'.op = "encrypt" /\ last'.party = p
    /\ now' = now /\ hist' = hist

\* The ratchet keys the messages sent so far carry
UsedRatchetKeys ==
    { net[i].msg.signed.message.senderRatchetKey : i \in 1..Len(net) }

RotationRule(p) ==
    /\ EncryptBy(p) =>
          IF Closing(Val(sess[p]))
          THEN /\ Val(sess'[p]).counter = Val(sess[p]).counter + 1
               /\ Val(sess'[p]).currentRatchetKey # Val(sess[p]).currentRatchetKey
               /\ Val(sess'[p]).currentRatchetKey \notin UsedRatchetKeys
               /\ ~Closing(Val(sess'[p]))
          ELSE /\ Val(sess'[p]).counter = Val(sess[p]).counter
               /\ Val(sess'[p]).currentRatchetKey = Val(sess[p]).currentRatchetKey
               /\ ~Closing(Val(sess'[p]))
    /\ (IsSome(sess[p]) /\ IsSome(sess'[p])
          /\ ~Closing(Val(sess[p])) /\ Closing(Val(sess'[p])))
          => /\ last'.op = "decrypt" /\ last'.party = p
             /\ Val(Val(sess'[p]).heap[Val(sess'[p]).currentStep].remoteRatchetKey)
                   \notin DOMAIN Val(sess[p]).ratchetKeyLookup

\* C26: an encrypt adds exactly 1 to the session's DH counter and replaces
\* the local ratchet key by a fresh one if and only if the current step has a
\* receiving chain and no sending chain when it starts; otherwise it leaves
\* both as they are.  After an encrypt the current step is never again in
\* that condition until a decrypt has built a step for a peer ratchet key
\* the step index did not hold, so each such key leads to at most one
\* rotation.
C26_RotationRule == [][\A p \in Parties : RotationRule(p)]_vars

C26_Witness ==
    /\ last.op = "encrypt" /\ last.ok
    /\ Val(sess[last.party]).counter = 1
    /\ Val(Val(sess[last.party]).heap[Val(sess[last.party]).currentStep].sendingChain).counter = 2
    /\ IsSome(Val(sess[last.party]).heap[Val(sess[last.party]).currentStep].receivingChain)

-----------------------------------------------------------------------------
(* Convergence of the chains the two sessions derive *)

\* The last step of session r that was given a sending chain, 0 if none
LatestSending(r) ==
    IF \E i \in DOMAIN r.heap : IsSome(r.heap[i].sendingChain)
    THEN CHOOSE i \in DOMAIN r.heap :
            /\ IsSome(r.heap[i].sendingChain)
            /\ \A j \in DOMAIN r.heap : IsSome(r.heap[j].sendingChain) => j <= i
    ELSE 0

\* The chain key a chain holds once clicked up to counter n
RECURSIVE ClickTo(_, _)
ClickTo(chain, n) ==
    IF chain.counter >= n THEN chain.rootKey
    ELSE ClickTo(click(chain).chain, n)

\* This step is a decrypt by p of a genuine message from q whose ratchet
\* key, q's current one, p's step index does not hold; q built the sending
\* chain for it against the ratchet key p still has; p builds the receiving
\* chain
BuildsReceiving(p, q) ==
    /\ IsSome(sess[p]) /\ IsSome(sess[q])
    /\ last'.op = "decrypt" /\ last'.party = p /\ last'.variant = "genuine"
    /\ hist'.seen # hist.seen \/ hist'.okd # hist.okd \/ sess' # sess
    /\ Val(last'.key) \notin DOMAIN Val(sess[p]).ratchetKeyLookup
    /\ Val(last'.key) = Val(sess[q]).currentRatchetKey
    /\ LatestSending(Val(sess[q])) > 0
    /\ Val(sess[q]).heap[LatestSending(Val(sess[q]))].remoteRatchetKey
          = Some(Val(sess[p]).currentRatchetKey)
    /\ IsSome(Val(sess'[p]).heap[Val(sess'[p]).currentStep].receivingChain)

Converged(p, q) ==
    /\ Val(sess'[p]).rootKey = Val(sess[q]).rootKey
    /\ Val(sess'[p]).heap[Val(sess'[p]).currentStep].remoteRatchetKey
          = Some(Val(last'.key))
    /\ \E recv \in {Val(Val(sess'[p]).heap[Val(sess'[p]).currentStep].receivingChain)},
          send \in {Val(Val(sess[q]).heap[LatestSending(Val(sess[q]))].sendingChain)} :
          ClickTo(recv, send.counter) = ClickTo(send, recv.counter)

\* C27: when a decrypt of a genuine message bearing a peer ratchet key that
\* the step index does not hold builds the receiving chain with the local
\* ratchet key the peer derived against, the receiving chain carries the
\* same chain keys as the peer's sending chain for that ratchet key and the
\* two sessions hold the same root key after the step.
C27_ChainConvergence ==
    [][\A p \in Parties : BuildsReceiving(p, Peer(p)) => Converged(p, Peer(p))]_vars

\* Alice has answered, Bob has built the receiving chain for her new ratchet
\* key, and the root keys agree
C27_Witness ==
    /\ last.op = "decrypt" /\ last.ok /\ last.party = Bob
    /\ IsSome(sess[Alice])
    /\ Val(sess[Alice]).counter = 1
    /\ Val(last.key) = Val(sess[Alice]).currentRatchetKey
    /\ Val(sess[Bob]).rootKey = Val(sess[Alice]).rootKey
    /\ Val(sess[Bob]).heap[Val(sess[Bob]).currentStep].remoteRatchetKey = last.key
    /\ IsSome(Val(sess[Bob]).heap[Val(sess[Bob]).currentStep].receivingChain)

-----------------------------------------------------------------------------
(* Skipped keys on a decrypt that jumps ahead *)

\* The counter message idx carries
CounterOf(idx) == net[idx].msg.signed.message.counter

\* What lastDecryptedCounter was in session r for the step of ratchet key
\* rk; a step still to be created starts at -1
LastDecrypted(r, rk) ==
    IF IsSome(getStep(r, rk)) THEN r.heap[Val(getStep(r, rk))].lastDecryptedCounter
    ELSE 0 - 1

\* This step is a successful decrypt by p, through the chain, of a message
\* whose counter is beyond lastDecryptedCounter + 1 of its step
JumpsAhead(p) ==
    /\ IsSome(sess[p])
    /\ last'.op = "decrypt" /\ last'.party = p /\ last'.ok
    /\ sess' # sess
    /\ CounterOf(last'.idx) > LastDecrypted(Val(sess[p]), Val(last'.key)) + 1

\* C28: a decrypt at counter c beyond lastDecryptedCounter + 1 leaves, for
\* every counter from lastDecryptedCounter + 1 to c - 1, a key in the
\* session-global skipped-key cache under (id of the step, counter), and
\* sets lastDecryptedCounter to the larger of its old value and c.
C28_EagerSkippedKeys ==
    [][\A p \in Parties : JumpsAhead(p) =>
          /\ \A c \in (LastDecrypted(Val(sess[p]), Val(last'.key)) + 1)
                        ..(CounterOf(last'.idx) - 1) :
                hasSkippedMessageKey(Val(sess'[p]), Thumbprint(Val(last'.key)), c)
          /\ LastDecrypted(Val(sess'[p]), Val(last'.key))
                = Max2(LastDecrypted(Val(sess[p]), Val(last'.key)),
                       CounterOf(last'.idx))]_vars

\* What the decrypt does: none of these counters gets an entry in the
\* session-global cache (the keys the chain clicked past stay in the chain's
\* own messageKeys), and lastDecryptedCounter is raised as stated
C28_KeysInChain ==
    [][\A p \in Parties : JumpsAhead(p) =>
          /\ \A c \in (LastDecrypted(Val(sess[p]), Val(last'.key)) + 1)
                        ..(CounterOf(last'.idx) - 1) :
                ~hasSkippedMessageKey(Val(sess'[p]), Thumbprint(Val(last'.key)), c)
          /\ LastDecrypted(Val(sess'[p]), Val(last'.key))
                = Max2(LastDecrypted(Val(sess[p]), Val(last'.key)),
                       CounterOf(last'.idx))]_vars

-----------------------------------------------------------------------------
(* The store algorithm of the session-global skipped-key cache *)

\* This step is a storeSkippedMessageKey on the stack
StoreStep == last'.op = "store" /\ now' = now

\* The entries of cache no older than the limit at time t
Unexpired(cache, limits, t) ==
    { x \in DOMAIN cache : ~(t - cache[x].timestamp > limits.skippedKeyTTL) }

\* From cache (at capacity) to after: the expired entries are gone; if the
\* rest is still at capacity exactly one entry of smallest timestamp is gone
\* too; the entry written now is there; the others are as they were; the
\* size is within the limit
StoreRule(cache, after, limits, t) ==
    \E new \in DOMAIN after :
        /\ after[new].timestamp = t
        /\ IF Cardinality(Unexpired(cache, limits, t)) >= limits.maxSkippedKeys
           THEN \E o \in Unexpired(cache, limits, t) :
                   /\ \A y \in Unexpired(cache, limits, t) :
                          cache[o].timestamp <= cache[y].timestamp
                   /\ DOMAIN after = (Unexpired(cache, limits, t) \ {o}) \cup {new}
           ELSE DOMAIN after = Unexpired(cache, limits, t) \cup {new}
        /\ \A x \in DOMAIN after \ {new} : after[x] = cache[x]
        /\ Cardinality(DOMAIN after) <= limits.maxSkippedKeys

\* C29: a storeSkippedMessageKey on a cache holding at least maxSkippedKeys
\* entries removes the entries older than skippedKeyTTL, then, if the cache is
\* still at capacity, exactly one entry of smallest timestamp; afterwards the
\* new entry is present and the cache holds at most maxSkippedKeys entries.
C29_StoreAlgorithm ==
    [][(/\ StoreStep
        /\ Cardinality(DOMAIN Val(sess[Alice]).globalSkippedKeys)
              >= Val(sess[Alice]).limits.maxSkippedKeys)
          => StoreRule(Val(sess[Alice]).globalSkippedKeys,
                       Val(sess'[Alice]).globalSkippedKeys,
                       Val(sess[Alice]).limits, now)]_vars

\* The same for a stack whose maxSkippedKeys is at least 1
C29_PositiveLimit ==
    [][(/\ StoreStep
        /\ Val(sess[Alice]).limits.maxSkippedKeys >= 1
        /\ Cardinality(DOMAIN Val(sess[Alice]).globalSkippedKeys)
              >= Val(sess[Alice]).limits.maxSkippedKeys)
          => StoreRule(Val(sess[Alice]).globalSkippedKeys,
                       Val(sess'[Alice]).globalSkippedKeys,
                       Val(sess[Alice]).limits, now)]_vars

\* With maxSkippedKeys = 0 the cache holds an entry
C29_OverLimit ==
    Cardinality(DOMAIN Val(sess[Alice]).globalSkippedKeys)
        > Val(sess[Alice]).limits.maxSkippedKeys

-----------------------------------------------------------------------------
(* Consuming a skipped key *)

\* The ratchet keys whose ids the cache is asked about
CacheKeys == 0..1

\* key = steps.consumeSkippedMessageKey(id of rk n, counter), whether or not
\* the cache holds the entry
Consume(n, counter) ==
    /\ \E c \in {consumeSkippedMessageKey(Val(sess[Alice]),
                                          Thumbprint(Key(Bob, "rk", n)), counter)} :
          /\ sess' = [sess EXCEPT ![Alice] =
                         Some([Val(sess[Alice]) EXCEPT
                                 !.globalSkippedKeys = c.globalSkippedKeys])]
          /\ last' = [NoOp EXCEPT !.op = "consume", !.party = Alice,
                                  !.key = Some(Thumbprint(Key(Bob, "rk", n))),
                                  !.idx = counter,
                                  !.ok = IsSome(c.key), !.plain = c.key]
    /\ UNCHANGED <<identity, net, now, hist, calls>>

\* steps.hasSkippedMessageKey(id of rk n, counter)
Has(n, counter) ==
    /\ last' = [NoOp EXCEPT !.op = "has", !.party = Alice,
                            !.key = Some(Thumbprint(Key(Bob, "rk", n))),
                            !.idx = counter,
                            !.ok = hasSkippedMessageKey(Val(sess[Alice]),
                                       Thumbprint(Key(Bob, "rk", n)), counter)]
    /\ UNCHANGED <<identity, sess, net, now, hist, calls>>

NextCache ==
    \/ \E n \in CacheKeys, counter \in StackCounters : StoreSkipped(n, counter)
    \/ \E n \in CacheKeys, counter \in StackCounters : Consume(n, counter)
    \/ \E n \in CacheKeys, counter \in StackCounters : Has(n, counter)

SpecCache == InitStack /\ [][NextCache]_vars

\* The pair the last consume or has was about
Asked == <<Val(last.key), last.idx>>

ConsumeRule(cache, after) ==
    /\ last'.op = "consume" =>
          /\ last'.plain = IF Asked' \in DOMAIN cache
                           THEN Some(cache[Asked'].messageKey) ELSE None
          /\ Asked' \notin DOMAIN after
          /\ DOMAIN after = DOMAIN cache \ {Asked'}
          /\ \A x \in DOMAIN after : after[x] = cache[x]
          /\ (last.op = "consume" /\ Asked = Asked') => last'.plain = None
    /\ last'.op = "has" =>
          /\ last'.ok = (Asked' \in DOMAIN cache)
          /\ after = cache
          /\ (last.op = "consume" /\ Asked = Asked') => ~last'.ok
    /\ (\E x \in DOMAIN after : x \notin DOMAIN cache) => last'.op = "store"

\* C30: consumeSkippedMessageKey returns the key stored under (stepId,
\* counter) and erases that entry and no other; a consume or has for the same
\* pair that follows finds nothing, and an entry comes back only by a store.
C30_ConsumedOnce ==
    [][ConsumeRule(Val(sess[Alice]).globalSkippedKeys,
                   Val(sess'[Alice]).globalSkippedKeys)]_vars

C30_Witness ==
    /\ last.op = "consume" /\ IsSome(last.plain)
    /\ Asked \notin DOMAIN Val(sess[Alice]).globalSkippedKeys
    /\ DOMAIN Val(sess[Alice]).globalSkippedKeys # {}

-----------------------------------------------------------------------------
(* Eviction from a receiving chain's cache on overflow *)

\* The receiving chain session r has for ratchet key rk, a new one if none
ChainFor(r, rk) ==
    IF IsSome(RecvView(r, rk)) THEN Val(RecvView(r, rk)).chain
    ELSE NewReceivingChain(<<>>)

\* The cached counters of chain that have not expired at time t
FreshCounters(chain, t) == (DOMAIN chain.messageKeys) \ ExpiredCounters(chain, t)

\* This step is a decrypt by p that fast-forwards the receiving chain of the
\* message's ratchet key to the message's counter
FastForwards(p) ==
    /\ IsSome(sess[p])
    /\ last'.op = "decrypt" /\ last'.party = p
    /\ last'.err # "OutsideRatchetWindow"
    /\ sess' # sess
    /\ CounterOf(last'.idx) >= ChainFor(Val(sess[p]), Val(last'.key)).counter
    /\ CounterOf(last'.idx) \notin
          FreshCounters(ChainFor(Val(sess[p]), Val(last'.key)), now)
    /\ IsSome(RecvView(Val(sess'[p]), Val(last'.key)))

\* kept is held, the new counters being skipped.  At most MAX_CACHED_KEYS of
\* them are kept, all if they are no more than that, and every counter given
\* up is smaller than every counter kept
KeepsNewest(held, kept) ==
    /\ kept \subseteq held
    /\ Cardinality(kept) = IF Cardinality(held) > MAX_CACHED_KEYS
                           THEN MAX_CACHED_KEYS ELSE Cardinality(held)
    /\ \A x \in held \ kept : \A y \in kept : x < y

-----------------------------------------------------------------------------
(* The header of an emitted message *)

\* The message the encrypt of this step emitted
Emitted == net'[Len(net')].msg.signed.message

HeaderRule(p) ==
    (EncryptBy(p) /\ last'.ok /\ Len(net') = Len(net) + 1) =>
        /\ Emitted.counter =
              IF IsSome(Val(sess[p]).heap[Val(sess[p]).currentStep].sendingChain)
              THEN Val(Val(sess[p]).heap[Val(sess[p]).currentStep].sendingChain).counter
              ELSE 0
        /\ Val(Val(sess'[p]).heap[Val(sess'[p]).currentStep].sendingChain).counter
              = Emitted.counter + 1
        /\ Emitted.previousCounter = Val(sess'[p]).counter
        /\ Emitted.previousCounter =
              IF Closing(Val(sess[p])) THEN Val(sess[p]).counter + 1
              ELSE Val(sess[p]).counter
        /\ Emitted.senderRatchetKey = Val(sess'[p]).currentRatchetKey

\* C32: a message emitted by encrypt carries as counter the counter the
\* sending chain had before the encryption (0 on a chain just built, one more
\* with each message of the chain), as previousCounter the session's DH
\* counter at the encryption (after the rotation, if the encrypt rotates) and
\* as senderRatchetKey the local ratchet public key.
C32_HeaderNumbering == [][\A p \in Parties : HeaderRule(p)]_vars

\* The third message of a chain built after a rotation
C32_Witness ==
    /\ last.op = "encrypt" /\ last.ok
    /\ net[last.idx].msg.signed.message.counter = 2
    /\ net[last.idx].msg.signed.message.previousCounter = 1
    /\ net[last.idx].msg.signed.message.senderRatchetKey
          = Val(sess[last.party]).currentRatchetKey

-----------------------------------------------------------------------------
(* What encrypt and decrypt leave alone *)

\* This step is a decrypt of party p
DecryptBy(p) ==
    /\ IsSome(sess[p])
    /\ last'.op = "decrypt" /\ last'.party = p
    /\ now' = now

\* From r to q the step ring, the step index, the receiving chains, the
\* lastDecryptedCounters and the skipped-key caches are the same
ReceivingSideSame(r, q) ==
    /\ q.items = r.items
    /\ q.maxSize = r.maxSize
    /\ q.ratchetKeyLookup = r.ratchetKeyLookup
    /\ q.globalSkippedKeys = r.globalSkippedKeys
    /\ DOMAIN q.heap = DOMAIN r.heap
    /\ \A i \in DOMAIN r.heap :
          /\ q.heap[i].remoteRatchetKey = r.heap[i].remoteRatchetKey
          /\ q.heap[i].ratchetKeyId = r.heap[i].ratchetKeyId
          /\ q.heap[i].receivingChain = r.heap[i].receivingChain
          /\ q.heap[i].lastDecryptedCounter = r.heap[i].lastDecryptedCounter
          /\ q.heap[i].skippedMessageKeys = r.heap[i].skippedMessageKeys

\* From r to q the local ratchet key, the DH counter and the sending chains
\* are the same
SendingSideSame(r, q) ==
    /\ q.currentRatchetKey = r.currentRatchetKey
    /\ q.counter = r.counter
    /\ \A i \in DOMAIN r.heap : q.heap[i].sendingChain = r.heap[i].sendingChain
    /\ \A i \in (DOMAIN q.heap) \ (DOMAIN r.heap) : ~IsSome(q.heap[i].sendingChain)

\* C33 as stated: encrypt leaves the receiving side alone; decrypt leaves
\* the sending side alone, the step encrypt sends on included.
C33_FrameBothWays ==
    [][\A p \in Parties :
          /\ EncryptBy(p) =>
                /\ ReceivingSideSame(Val(sess[p]), Val(sess'[p]))
                /\ Val(sess'[p]).currentStep = Val(sess[p]).currentStep
          /\ DecryptBy(p) =>
                /\ SendingSideSame(Val(sess[p]), Val(sess'[p]))
                /\ Val(sess'[p]).heap[Val(sess'[p]).currentStep]
                      = Val(sess'[p]).heap[Val(sess[p]).currentStep]]_vars

\* C33 amended: encrypt leaves the receiving side and the current step
\* alone; decrypt leaves the local ratchet key, the DH counter and every
\* sending chain alone, and moves the current step, the step encrypt sends
\* on, to a new step exactly when the message is inside the ratchet window
\* and bears a ratchet key the step index does not hold.
C33_Frame ==
    [][\A p \in Parties :
          /\ EncryptBy(p) =>
                /\ ReceivingSideSame(Val(sess[p]), Val(sess'[p]))
                /\ Val(sess'[p]).currentStep = Val(sess[p]).currentStep
          /\ DecryptBy(p) =>
                /\ SendingSideSame(Val(sess[p]), Val(sess'[p]))
                /\ IF /\ last'.err # "OutsideRatchetWindow"
                      /\ ~IsSome(getStep(Val(sess[p]), Val(last'.key)))
                      /\ (sess' # sess)
                   THEN /\ Val(sess'[p]).currentStep \notin DOMAIN Val(sess[p]).heap
                        /\ Val(sess'[p]).heap[Val(sess'[p]).currentStep].remoteRatchetKey
                              = last'.key
                   ELSE Val(sess'[p]).currentStep = Val(sess[p]).currentStep]_vars

\* Bob has decrypted Alice's answer: his current step is the new one, his
\* ratchet key and counter are those he had
C33_Witness ==
    /\ last.op = "decrypt" /\ last.ok /\ last.party = Bob
    /\ Val(sess[Bob]).currentStep = 2
    /\ Val(sess[Bob]).counter = 0
    /\ ~IsSome(Val(sess[Bob]).heap[2].sendingChain)
    /\ IsSome(Val(sess[Bob]).heap[1].sendingChain)

-----------------------------------------------------------------------------
(* The update event and the mutation of the session *)

\* C34: an encrypt or decrypt that changes the state of the session emits
\* update, whether it returns or throws.
C34_UpdateOnMutation ==
    [][\A p \in Parties :
          ((EncryptBy(p) \/ DecryptBy(p)) /\ sess'[p] # sess[p])
              => last'.upd >= 1]_vars

\* What holds: a call that returns, or throws at the MAC check, has emitted
\* update; a call that changed nothing and threw has not
C34_UpdateOnReturn ==
    [][\A p \in Parties :
          (EncryptBy(p) \/ DecryptBy(p)) =>
              /\ (last'.ok \/ last'.err = "VerifyFailed") => last'.upd >= 1
              /\ (sess'[p] = sess[p] /\ ~last'.ok /\ last'.err # "VerifyFailed")
                    => last'.upd = 0]_vars

\* The field ids of the chunks of data, in the order they stand in
RECURSIVE FieldIds(_, _)
FieldIds(data, offset) ==
    IF offset + 8 > Len(data) THEN <<>>
    ELSE << getUint32(data, offset) >>
           \o FieldIds(data, offset + 8 + getUint32(data, offset + 4))

Ascending(ids) == \A i \in 1..(Len(ids) - 1) : ids[i] < ids[i + 1]

\* C35: exportProto writes the defined properties in strictly ascending order
\* of field id; importProto reads chunks in any order and passes over a
\* chunk of unknown id; so the encoding of a record decoded from reordered
\* bytes is the ascending encoding of the known fields of those bytes.
C35_CanonicalForm ==
    /\ calls[1].pc \in {"exported", "again"} =>
          Ascending(FieldIds(IF calls[1].pc = "again" THEN calls[1].again
                             ELSE calls[1].data, 0))
    /\ (calls[1].pc = "imported" /\ calls[1].order # "") =>
          (calls[1].ok /\ calls[1].out = Some(calls[1].x))
    /\ (calls[1].pc = "again" /\ calls[1].order # "") =>
          calls[1].again = exportProto(calls[1].type, calls[1].x).bytes

C35_Witness ==
    /\ calls[1].pc = "again" /\ calls[1].order = "both"
    /\ calls[1].type = "PreKeySigned"
    /\ FieldIds(calls[1].data, 0) = <<3, 2, 1, UNKNOWN_FIELD>>
    /\ FieldIds(calls[1].again, 0) = <<1, 2, 3>>


-----------------------------------------------------------------------------
(* A decrypt that fails on a ratchet key the step index does not hold *)

\* The root key, the step ring and index and the current step of r and q
\* are the same
StepsSame(r, q) ==
    /\ q.rootKey = r.rootKey
    /\ q.items = r.items
    /\ q.heap = r.heap
    /\ q.ratchetKeyLookup = r.ratchetKeyLookup
    /\ q.currentStep = r.currentStep

\* decrypt by p rejects a message whose senderRatchetKey getStep does not find
FailsOnNewKey(p) ==
    /\ DecryptBy(p)
    /\ ~last'.ok
    /\ IsSome(last'.key)
    /\ ~IsSome(getStep(Val(sess[p]), Val(last'.key)))

\* C36: a decrypt that fails on a message bearing a sender ratchet key the
\* step index does not hold leaves the root key, the step ring and index and
\* the current step as they were before the call.
C36_FailedDecryptUnchanged ==
    [][\A p \in Parties :
          FailsOnNewKey(p) => StepsSame(Val(sess[p]), Val(sess'[p]))]_vars

\* What the code does: the step for the unknown key is pushed and made
\* current and the root key is replaced before the message is authenticated
C36_FailedDecryptAdvances ==
    [][\A p \in Parties :
          (FailsOnNewKey(p) /\ last'.err # "OutsideRatchetWindow") =>
              /\ Val(sess'[p]).currentStep \notin DOMAIN Val(sess[p]).heap
              /\ Val(sess'[p]).heap[Val(sess'[p]).currentStep].remoteRatchetKey
                    = last'.key
              /\ Val(sess'[p]).rootKey # Val(sess[p]).rootKey]_vars


-----------------------------------------------------------------------------
(* The step index and the step ring *)

\* AsymmetricRatchet.hasRatchetKey: some step of the ring bears the key
hasRatchetKey(r, key) ==
    \E i \in DOMAIN r.items :
        r.heap[r.items[i]].remoteRatchetKey = Some(key)

\* The ratchet key ids of the steps the ring holds
RingKeyIds(r) ==
    { Val(r.heap[r.items[i]].ratchetKeyId) :
        i \in { j \in DOMAIN r.items : IsSome(r.heap[r.items[j]].ratchetKeyId) } }

\* The ratchet keys a session has been shown
KnownRatchetKeys(r) ==
    { Val(r.heap[i].remoteRatchetKey) :
        i \in { j \in DOMAIN r.heap : IsSome(r.heap[j].remoteRatchetKey) } }

IndexConsistent(r) ==
    /\ DOMAIN r.ratchetKeyLookup = RingKeyIds(r)
    /\ \A k \in KnownRatchetKeys(r) : IsSome(getStep(r, k)) <=> hasRatchetKey(r, k)
    /\ getSkippedKeyStats(r).ratchetKeyIds <= getSkippedKeyStats(r).ratchetSteps
    /\ getSkippedKeyStats(r).ratchetSteps <= r.limits.maxRatchetSteps

\* C37: the stepId index holds exactly the steps the ring holds: getStep
\* finds a key if and only if hasRatchetKey does, and ratchetKeyIds exceeds
\* neither ratchetSteps nor maxRatchetSteps.
C37_IndexConsistent ==
    \A p \in DOMAIN sess : IsSome(sess[p]) => IndexConsistent(Val(sess[p]))

\* What the code keeps: the index holds the steps of the ring, and the steps
\* the ring has dropped as well; the ring stays within maxRatchetSteps
C37_IndexCoversRing ==
    \A p \in DOMAIN sess : IsSome(sess[p]) =>
        /\ RingKeyIds(Val(sess[p])) \subseteq DOMAIN Val(sess[p]).ratchetKeyLookup
        /\ Len(Val(sess[p]).items) <= Val(sess[p]).maxSize
        /\ getSkippedKeyStats(Val(sess[p])).ratchetSteps
              <= Val(sess[p]).limits.maxRatchetSteps


-----------------------------------------------------------------------------
(* The responder encrypts before it has decrypted anything *)

\* r is as AsymmetricRatchet.create left a responder: nothing pushed, and a
\* current step with no peer ratchet key and no chain
AsCreatedResponder(r) ==
    /\ Len(r.items) = 0
    /\ ~IsSome(r.heap[r.currentStep].remoteRatchetKey)
    /\ ~IsSome(r.heap[r.currentStep].sendingChain)
    /\ ~IsSome(r.heap[r.currentStep].receivingChain)

\* The last call was p's encrypt and it threw for want of a peer ratchet key
EarlyEncryptFailed(p) ==
    /\ last.op = "encrypt" /\ last.party = p
    /\ ~last.ok /\ last.err = "EmptyRemoteRatchetKey"

\* C38: encrypt on a responder that has decrypted nothing throws, and leaves
\* the DH counter, the local ratchet key, the root key and the current step
\* (the whole session, and the transport) as they were; the decrypt of the
\* initiator's first message that follows succeeds, and so does the encrypt
\* after it.
C38_EarlyEncrypt ==
    [][\A p \in Parties :
          /\ (EncryptBy(p) /\ AsCreatedResponder(Val(sess[p]))) =>
                /\ ~last'.ok /\ last'.err = "EmptyRemoteRatchetKey"
                /\ last'.upd = 0
                /\ Val(sess'[p]).counter = Val(sess[p]).counter
                /\ Val(sess'[p]).currentRatchetKey = Val(sess[p]).currentRatchetKey
                /\ Val(sess'[p]).rootKey = Val(sess[p]).rootKey
                /\ Val(sess'[p]).currentStep = Val(sess[p]).currentStep
                /\ sess' = sess /\ net' = net
          /\ (EarlyEncryptFailed(p) /\ DecryptBy(p) /\ last'.idx = 1) =>
                /\ last'.ok
                /\ ~AsCreatedResponder(Val(sess'[p]))
          /\ (EncryptBy(p) /\ last.op = "decrypt" /\ last.party = p /\ last.ok) =>
                last'.ok]_vars

\* Alice, just created from Bob's PreKeyMessage, has tried to encrypt
C38_Witness ==
    /\ EarlyEncryptFailed(Alice)
    /\ AsCreatedResponder(Val(sess[Alice]))
    /\ Len(net) >= 1 /\ net[1].from = Bob


-----------------------------------------------------------------------------
(* Progress of the calls queued in one direction.  The event loop runs    *)
(* every continuation that is ready, so a body that can take its next     *)
(* step eventually takes it: weak fairness on each call's Run.            *)

\* The application calls encrypt or decrypt on a session whose calls so far
\* are all of that kind
InvokeSame(kind, arg) ==
    /\ \A k \in DOMAIN calls : calls[k].kind = kind
    /\ Invoke(kind, arg)

NextProgress ==
    \/ InvokeSame("encrypt", Plaintext(10 + Len(calls)))
    \/ \E idx \in 2..3 : InvokeSame("decrypt", idx)
    \/ \E k \in 1..MaxQueue : Run(k)
    \/ \E k \in 1..MaxQueue : Clear(k)

SpecProgress ==
    /\ InitQueue
    /\ [][NextProgress]_vars
    /\ \A k \in 1..MaxQueue : WF_vars(Run(k))

\* Call k was given a message no earlier call was given
FirstForMessage(k) ==
    \A j \in 1..(k - 1) : calls[j].arg # calls[k].arg

\* C39: every call queued on the session eventually settles; a call that
\* rejects does not keep the calls queued behind it from running, and does
\* not make them reject: an encrypt fulfils, and a decrypt rejects only if
\* an earlier call was given the same message.
C39_QueueProgress ==
    /\ \A k \in 1..MaxQueue :
          (Len(calls) >= k) ~> (Len(calls) >= k /\ Settled(calls[k]))
    /\ [](\A k \in DOMAIN calls :
            calls[k].pc = "rejected" =>
                (calls[k].kind = "decrypt" /\ ~FirstForMessage(k)))

\* Three decrypts were queued: the second, given the message of the first,
\* has rejected, and the third, chained to it, has fulfilled
C39_Witness ==
    /\ Len(calls) = 3
    /\ \A k \in 1..3 : calls[k].kind = "decrypt"
    /\ calls[1].arg = calls[2].arg /\ calls[3].arg # calls[1].arg
    /\ calls[1].pc = "fulfilled"
    /\ calls[2].pc = "rejected"
    /\ calls[3].prev = Some(2)
    /\ calls[3].pc = "fulfilled"

====
